---- MODULE Spec2Model ----
(***************************************************************************)
(* A model of claude-coach's ingestion pipeline:                           *)
(*   - LogImporter._classify_tool            (core/importer.py)            *)
(*   - LogImporter._import_session, the per-line scan of one session file  *)
(*   - LogParser._parse_session_file, the read-side scan with plan mode    *)
(*   - LogImporter.import_all over an SQLite store reached through an      *)
(*     SQLAlchemy session (autoflush off, one transaction per batch).      *)
(*                                                                         *)
(* Strings that the code takes apart (tool names, message text) are        *)
(* sequences of tokens; a token stands for a run of characters.  Python's  *)
(* None is the token sequence NoneVal, and an absent timestamp is 0.       *)
(***************************************************************************)
EXTENDS Integers, Sequences, FiniteSets, TLC

VARIABLES
    \* --- tool classification (one call of _classify_tool)
    cname,      \* the tool name of the last call
    cinput,     \* the tool input of the last call
    cresult,    \* what the call returned
    \* --- one session file being scanned line by line
    lines,      \* names of the lines read so far, in file order
    imp,        \* the locals of LogImporter._import_session
    par,        \* the locals of LogParser._parse_session_file
    \* --- the store and the batch import
    disk,       \* the session files import_all discovers, in discovery order
    db,         \* the committed contents of the SQLite database
    tx,         \* the rows the open transaction has flushed (its view of the database)
    pending,    \* ORM objects added to the session and not yet flushed
    pc,         \* "idle", or "scan" while import_all walks the files
    pos,        \* the number of discovered files import_all has handled
    force,      \* the force flag of the running import_all
    stats,      \* the statistics dict of the running (or last) import_all
    outcome,    \* how the last import_all ended
    batches,    \* the number of import_all calls started
    \* --- error classification (calls of categorize_error and get_subcategory)
    etext,      \* the error text of the calls
    eresults,   \* what each call returned, in call order
    \* --- the read side: lookups and listings over the project directories
    projects,   \* the project directories, in the order iterdir gives them
    call,       \* the call made on LogParser / ErrorAnalyzer
    reply       \* what the call returned

classifyVars == <<cname, cinput, cresult>>
errorVars == <<etext, eresults>>
readVars == <<projects, call, reply>>
scanVars == <<lines, imp, par>>
storeVars == <<disk, db, tx, pending, pc, pos, force, stats, outcome, batches>>
vars == <<cname, cinput, cresult, lines, imp, par,
          disk, db, tx, pending, pc, pos, force, stats, outcome, batches,
          etext, eresults, projects, call, reply>>

-----------------------------------------------------------------------------
(* Bounds of the model. *)

\* the longest tool name, in tokens
MaxNameLen == 4
\* the longest session file, in lines
MaxLines == 3
\* the number of import_all calls of one behaviour
MaxBatches == 2
\* the number of session files import_all discovers
MaxFiles == 2
\* the longest error text, in phrases
MaxErrLen == 2
\* the number of project directories
MaxProjects == 2
\* the largest limit of a listing
MaxLimit == 2

-----------------------------------------------------------------------------
(* Python values. *)

NoneVal == <<"<None>">>
Unknown == <<"unknown">>
EmptyDict == <<>>

\* dict.get(key, default)
Get(d, key, default) == IF key \in DOMAIN d THEN d[key] ELSE default

Min(a, b) == IF a <= b THEN a ELSE b
Max(a, b) == IF a >= b THEN a ELSE b

\* s[:n]
Truncate(s, n) == SubSeq(s, 1, Min(Len(s), n))

-----------------------------------------------------------------------------
(* LogImporter._classify_tool *)

\* The tokens tool names are made of.  "__" is the double underscore, "_g" an
\* underscore followed by a letter, "mcp" / "Skill" / "Task" those very letters
\* and "g" any other run of letters: every string over them reads back in one way.
NameTokens == {"mcp", "__", "g", "_g", "Skill", "Task"}

RECURSIVE SplitFrom(_, _)
SplitFrom(toks, cur) ==
    IF toks = <<>> THEN <<cur>>
    ELSE IF Head(toks) = "__" THEN <<cur>> \o SplitFrom(Tail(toks), <<>>)
    ELSE SplitFrom(Tail(toks), Append(cur, Head(toks)))

\* tool_name.split("__")
SplitDunder(name) == SplitFrom(name, <<>>)

\* tool_name.startswith("mcp__")
StartsWithMcp(name) == Len(name) >= 2 /\ name[1] = "mcp" /\ name[2] = "__"

\* a slip: the first segment instead of the second
McpServerFirstSegment(name) ==
    LET parts == SplitDunder(name)
    IN  IF Len(parts) >= 3 THEN parts[1] ELSE Unknown

McpServerName(name) ==
    LET parts == SplitDunder(name)
    IN  IF Len(parts) >= 3 THEN parts[2] ELSE Unknown

ClassifyTool(tool_name, tool_input) ==
    IF tool_name = <<"Skill">> THEN
        [category |-> "skill", mcp_server |-> NoneVal,
         skill_name |-> Get(tool_input, "skill", Unknown), subagent_type |-> NoneVal]
    ELSE IF tool_name = <<"Task">> THEN
        [category |-> "agent", mcp_server |-> NoneVal,
         skill_name |-> NoneVal,
         subagent_type |-> Get(tool_input, "subagent_type", Unknown)]
    ELSE IF StartsWithMcp(tool_name) THEN
        [category |-> "mcp", mcp_server |-> McpServerName(tool_name),
         skill_name |-> NoneVal, subagent_type |-> NoneVal]
    ELSE
        [category |-> "native", mcp_server |-> NoneVal,
         skill_name |-> NoneVal, subagent_type |-> NoneVal]

-----------------------------------------------------------------------------
(* The lines of a session file. *)

\* Optional[int] columns hold NoneInt where Python holds None
NoneInt == -1

PlanPath == <<"/home/u", "/.claude/plans/", "p.md">>

\* "/.claude/plans/" in file_path
InPlansDir(file_path) == \E i \in 1..Len(file_path) : file_path[i] = "/.claude/plans/"

\* A decoded JSON object carries type, timestamp, the four metadata fields, a
\* message (absent, a dict, or a value of another type: "bad"), the message's
\* content (absent, a string, a list of parts, or another type), its usage, the
\* toolUseResult sibling and, for API errors, the error payload (absent, an
\* object holding an object, or a value of another type: "bad").
Event == [json |-> "object", type |-> "other", subtype |-> "", ts |-> 0,
          cwd |-> <<>>, gitBranch |-> <<>>, version |-> <<>>, slug |-> <<>>,
          msg |-> "absent", content |-> "absent", text |-> <<>>, parts |-> <<>>,
          usage |-> "absent", tokens |-> EmptyDict, model |-> NoneVal,
          tur |-> "absent", result |-> EmptyDict,
          payload |-> "absent", error |-> EmptyDict, retryAttempt |-> NoneInt, retryInMs |-> NoneInt]

Usage(i, o, cr, cc) ==
    ("input_tokens" :> i) @@ ("output_tokens" :> o) @@
    ("cache_read_input_tokens" :> cr) @@ ("cache_creation_input_tokens" :> cc)

TextPart(t) == [shape |-> "dict", d |-> ("type" :> "text") @@ ("text" :> t)]
ToolUsePart(name, id, input) ==
    [shape |-> "dict",
     d |-> ("type" :> "tool_use") @@ ("name" :> name) @@ ("id" :> id) @@ ("input" :> input)]
ToolResultPart(id) ==
    [shape |-> "dict", d |-> ("type" :> "tool_result") @@ ("tool_use_id" :> id)]

\* a tool_result item that reports a failure
ToolErrorPart(id, text) ==
    [shape |-> "dict",
     d |-> ("type" :> "tool_result") @@ ("tool_use_id" :> id) @@ ("is_error" :> TRUE)
           @@ ("content" :> text)]

UserEvent(t, text) ==
    [Event EXCEPT !.type = "user", !.ts = t, !.msg = "dict", !.content = "str", !.text = text]
ResultEvent(t, parts, result) ==
    [Event EXCEPT !.type = "user", !.ts = t, !.msg = "dict", !.content = "list",
                  !.parts = parts, !.tur = "dict", !.result = result]
AssistantEvent(t, parts, tokens) ==
    [Event EXCEPT !.type = "assistant", !.ts = t, !.msg = "dict", !.content = "list",
                  !.parts = parts, !.usage = "dict", !.tokens = tokens,
                  !.model = <<"claude-opus">>]

Catalogue ==
    [ blank      |-> [Event EXCEPT !.json = "blank"],
      malformed  |-> [Event EXCEPT !.json = "malformed"],
      nonobject  |-> [Event EXCEPT !.json = "nonobject"],
      summary    |-> [Event EXCEPT !.type = "other", !.ts = 1, !.cwd = <<"/proj">>,
                                   !.gitBranch = <<"main">>],
      user_hello |-> [UserEvent(1, <<"Hello">>) EXCEPT !.cwd = <<"/work">>,
                                   !.version = <<"2.0">>, !.slug = <<"calm-fox">>],
      user_late  |-> UserEvent(3, <<"More">>),
      user_badmsg |-> [Event EXCEPT !.type = "user", !.msg = "bad"],
      user_nomsg |-> [Event EXCEPT !.type = "user"],
      plan_created |-> ResultEvent(2, <<ToolResultPart("w1")>>,
                                   ("filePath" :> PlanPath) @@ ("type" :> "create")),
      tool_failed |-> [Event EXCEPT !.type = "user", !.ts = 3, !.msg = "dict",
                                    !.content = "list",
                                    !.parts = <<ToolErrorPart("b1", <<"exit code 1">>)>>],
      task_done  |-> ResultEvent(3, <<ToolResultPart("t1")>>,
                                 ("agentId" :> <<"a1b2">>) @@ ("status" :> <<"completed">>)
                                 @@ ("totalDurationMs" :> 40) @@ ("totalTokens" :> 7)
                                 @@ ("totalToolUseCount" :> 2)),
      asst_text  |-> AssistantEvent(2, <<TextPart(<<"Hi there!">>)>>, Usage(10, 5, 100, 50)),
      asst_tool  |-> AssistantEvent(2, <<ToolUsePart(<<"Bash">>, "b1", EmptyDict)>>,
                                    Usage(3, 2, 0, 0)),
      asst_plan  |-> AssistantEvent(1, <<ToolUsePart(<<"Write">>, "w1",
                                                     ("file_path" :> PlanPath))>>,
                                    Usage(4, 1, 0, 0)),
      asst_exit  |-> AssistantEvent(3, <<TextPart(<<"Plan ready">>),
                                         ToolUsePart(<<"ExitPlanMode">>, "x1", EmptyDict)>>,
                                    Usage(2, 6, 0, 0)),
      asst_plan_nots |-> AssistantEvent(0, <<ToolUsePart(<<"Write">>, "w2",
                                                         ("file_path" :> PlanPath))>>,
                                        Usage(1, 2, 0, 0)),
      asst_exit_nots |-> AssistantEvent(0, <<TextPart(<<"Go">>),
                                             ToolUsePart(<<"ExitPlanMode">>, "x2", EmptyDict)>>,
                                        Usage(2, 1, 0, 0)),
      asst_task  |-> AssistantEvent(2, <<ToolUsePart(<<"Task">>, "t1",
                                                     ("subagent_type" :> <<"Explore">>))>>,
                                    Usage(1, 1, 0, 0)),
      asst_badusage |-> [AssistantEvent(0, <<>>, EmptyDict) EXCEPT !.usage = "bad"],
      api_error  |-> [Event EXCEPT !.type = "system", !.subtype = "api_error", !.ts = 2,
                                   !.payload = "dict",
                                   !.error = ("type" :> <<"overloaded_error">>),
                                   !.retryAttempt = 1, !.retryInMs = 500],
      api_error_text |-> [Event EXCEPT !.type = "system", !.subtype = "api_error", !.ts = 2,
                                       !.payload = "bad"] ]

LineNames == DOMAIN Catalogue
Line(name) == Catalogue[name]

\* json.loads raises JSONDecodeError on the line
IsMalformed(name) == Line(name).json = "malformed"
-----------------------------------------------------------------------------
(* LogImporter._import_session: the scan of the file. *)

\* content[:10000], first_prompt[:500], description[:512], prompt_preview[:500]
ContentCap == 10000
PromptCap == 500
DescriptionCap == 512

ImpInit ==
    [status |-> "running",
     messages |-> <<>>, tool_usages |-> <<>>, errors |-> <<>>, subagent_usages |-> <<>>,
     pending_subagents |-> EmptyDict,
     total_input |-> 0, total_output |-> 0, total_cache_read |-> 0, total_cache_create |-> 0,
     first_prompt |-> NoneVal, first_timestamp |-> 0, last_timestamp |-> 0,
     project_path |-> <<>>, git_branch |-> <<>>, cli_version |-> <<>>, slug |-> <<>>,
     message_index |-> 0, cumulative_tokens |-> 0, subagent_count |-> 0, skill_count |-> 0]

\* An exception nothing in the scan catches: it leaves _import_session.
Raise(s) == [s EXCEPT !.status = "raised"]

\* a slip: the decode error is not caught
ImpOnDecodeErrorRaises(s) == Raise(s)

\* except json.JSONDecodeError: continue
ImpOnDecodeError(s) == s

ImpStamp(s, l) ==
    IF l.ts # 0
    THEN [s EXCEPT !.first_timestamp = IF @ = 0 THEN l.ts ELSE @, !.last_timestamp = l.ts]
    ELSE s

\* a slip: every event that supplies a value overwrites the field
ImpMetadataLastWins(s, l) ==
    [s EXCEPT !.project_path = IF l.cwd # <<>> THEN l.cwd ELSE @,
              !.git_branch = IF l.gitBranch # <<>> THEN l.gitBranch ELSE @,
              !.cli_version = IF l.version # <<>> THEN l.version ELSE @,
              !.slug = IF l.slug # <<>> THEN l.slug ELSE @]

ImpMetadata(s, l) ==
    [s EXCEPT !.project_path = IF @ = <<>> /\ l.cwd # <<>> THEN l.cwd ELSE @,
              !.git_branch = IF @ = <<>> /\ l.gitBranch # <<>> THEN l.gitBranch ELSE @,
              !.cli_version = IF @ = <<>> /\ l.version # <<>> THEN l.version ELSE @,
              !.slug = IF @ = <<>> /\ l.slug # <<>> THEN l.slug ELSE @]

\* a slip: the counter is not advanced after a user message
ImpUserMessageSameIndex(s, l, content) ==
    [s EXCEPT !.messages = Append(@, [role |-> "user",
                                      content |-> Truncate(content, ContentCap),
                                      timestamp |-> l.ts, model |-> NoneVal,
                                      input_tokens |-> NoneInt, output_tokens |-> NoneInt,
                                      cache_read_tokens |-> NoneInt,
                                      cache_creation_tokens |-> NoneInt,
                                      cumulative_context_tokens |-> NoneInt,
                                      message_index |-> s.message_index])]

ImpUserMessage(s, l, content) ==
    [s EXCEPT !.first_prompt = IF @ = NoneVal /\ content # <<>>
                               THEN Truncate(content, PromptCap) ELSE @,
              !.messages = Append(@, [role |-> "user",
                                      content |-> Truncate(content, ContentCap),
                                      timestamp |-> l.ts, model |-> NoneVal,
                                      input_tokens |-> NoneInt, output_tokens |-> NoneInt,
                                      cache_read_tokens |-> NoneInt,
                                      cache_creation_tokens |-> NoneInt,
                                      cumulative_context_tokens |-> NoneInt,
                                      message_index |-> s.message_index]),
              !.message_index = @ + 1]

\* a slip: the completion is stored as a record of its own
ImpEnrichAppends(s, tool_use_id, tool_result) ==
    LET k == s.pending_subagents[tool_use_id]
    IN  [s EXCEPT !.subagent_usages =
            Append(@, [s.subagent_usages[k] EXCEPT
                          !.agent_id = Get(tool_result, "agentId", NoneVal),
                          !.status = Get(tool_result, "status", <<"completed">>)])]

\* a slip: the token total of a completion is added to the one already there
ImpEnrichAccumulates(s, tool_use_id, tool_result) ==
    LET k == s.pending_subagents[tool_use_id]
    IN  [s EXCEPT !.subagent_usages[k] =
            [@ EXCEPT !.agent_id = Get(tool_result, "agentId", NoneVal),
                      !.status = Get(tool_result, "status", <<"completed">>),
                      !.duration_ms = Get(tool_result, "totalDurationMs", NoneInt),
                      !.total_tokens = (IF @ = NoneInt THEN 0 ELSE @)
                                       + Get(tool_result, "totalTokens", 0),
                      !.total_tool_use_count = Get(tool_result, "totalToolUseCount", NoneInt)]]

\* the completion fields of a pending SubagentUsage, set in place
ImpEnrich(s, tool_use_id, tool_result) ==
    LET k == s.pending_subagents[tool_use_id]
    IN  [s EXCEPT !.subagent_usages[k] =
            [@ EXCEPT !.agent_id = Get(tool_result, "agentId", NoneVal),
                      !.status = Get(tool_result, "status", <<"completed">>),
                      !.duration_ms = Get(tool_result, "totalDurationMs", NoneInt),
                      !.total_tokens = Get(tool_result, "totalTokens", NoneInt),
                      !.total_tool_use_count = Get(tool_result, "totalToolUseCount", NoneInt)]]

ImpToolResult(s, l, item) ==
    LET tool_use_id == Get(item, "tool_use_id", "")
    IN  IF /\ l.tur = "dict"
           /\ Get(l.result, "agentId", <<>>) # <<>>
           /\ tool_use_id # ""
           /\ tool_use_id \in DOMAIN s.pending_subagents
        THEN ImpEnrich(s, tool_use_id, l.result)
        ELSE s

RECURSIVE ImpResults(_, _, _)
ImpResults(s, l, items) ==
    IF items = <<>> \/ s.status = "raised" THEN s
    ELSE LET item == Head(items)
         IN  IF item.shape # "dict" THEN Raise(s)
             ELSE IF Get(item.d, "type", "") = "tool_result"
             THEN ImpResults(ImpToolResult(s, l, item.d), l, Tail(items))
             ELSE ImpResults(s, l, Tail(items))

ImpUser(s, l) ==
    IF l.msg = "bad" THEN Raise(s)
    ELSE CASE l.msg = "absent" \/ l.content = "absent" -> ImpUserMessage(s, l, <<>>)
           [] l.content = "str" -> ImpUserMessage(s, l, l.text)
           [] l.content = "list" -> ImpResults(s, l, l.parts)
           [] OTHER -> s

ImpToolUse(s, l, part) ==
    LET tool_name == Get(part, "name", Unknown)
        tool_input == Get(part, "input", EmptyDict)
        tool_use_id == Get(part, "id", "")
        classification == ClassifyTool(tool_name, tool_input)
        usage == [tool_name |-> tool_name, tool_use_id |-> tool_use_id,
                  timestamp |-> l.ts, category |-> classification.category,
                  mcp_server |-> classification.mcp_server,
                  skill_name |-> classification.skill_name,
                  subagent_type |-> classification.subagent_type]
        s1 == [s EXCEPT !.tool_usages = Append(@, usage),
                        !.skill_count = IF classification.category = "skill"
                                        THEN @ + 1 ELSE @]
        subagent == [subagent_type |-> IF classification.subagent_type \in {NoneVal, <<>>}
                                       THEN Unknown ELSE classification.subagent_type,
                     description |-> Truncate(Get(tool_input, "description", <<>>),
                                              DescriptionCap),
                     prompt_preview |-> Truncate(Get(tool_input, "prompt", <<>>), PromptCap),
                     model |-> Get(tool_input, "model", NoneVal),
                     timestamp |-> l.ts, tool_use_id |-> tool_use_id,
                     agent_id |-> NoneVal, status |-> NoneVal, duration_ms |-> NoneInt,
                     total_tokens |-> NoneInt, total_tool_use_count |-> NoneInt]
    IN  IF classification.category = "agent"
        THEN [s1 EXCEPT !.subagent_count = @ + 1,
                        !.subagent_usages = Append(@, subagent),
                        !.pending_subagents =
                            IF tool_use_id # ""
                            THEN (tool_use_id :> (Len(s1.subagent_usages) + 1)) @@ @
                            ELSE @]
        ELSE s1

\* the loop over the content parts: the state and the text gathered so far
RECURSIVE ImpParts(_, _, _, _)
ImpParts(s, l, parts, text) ==
    IF parts = <<>> \/ s.status = "raised" THEN [s |-> s, text |-> text]
    ELSE LET part == Head(parts)
             ptype == Get(part.d, "type", "")
         IN  IF part.shape # "dict" THEN [s |-> Raise(s), text |-> text]
             ELSE IF ptype = "text"
             THEN ImpParts(s, l, Tail(parts), text \o Get(part.d, "text", <<>>))
             ELSE IF ptype = "tool_use"
             THEN ImpParts(ImpToolUse(s, l, part.d), l, Tail(parts), text)
             ELSE ImpParts(s, l, Tail(parts), text)

ImpAssistantMessage(s, l, text, input_tokens, output_tokens, cache_read, cache_create) ==
    [s EXCEPT !.messages = Append(@, [role |-> "assistant",
                                      content |-> Truncate(text, ContentCap),
                                      timestamp |-> l.ts, model |-> l.model,
                                      input_tokens |-> input_tokens,
                                      output_tokens |-> output_tokens,
                                      cache_read_tokens |-> cache_read,
                                      cache_creation_tokens |-> cache_create,
                                      cumulative_context_tokens |-> s.cumulative_tokens,
                                      message_index |-> s.message_index]),
              !.message_index = @ + 1]

ImpAssistant(s, l) ==
    IF l.msg = "bad" \/ l.usage = "bad" THEN Raise(s)
    \* a string or null content is iterated as if it were the list of parts
    ELSE IF l.content = "other" \/ (l.content = "str" /\ l.text # <<>>) THEN Raise(s)
    ELSE LET usage == IF l.msg = "dict" /\ l.usage = "dict" THEN l.tokens ELSE EmptyDict
             input_tokens == Get(usage, "input_tokens", 0)
             output_tokens == Get(usage, "output_tokens", 0)
             cache_read == Get(usage, "cache_read_input_tokens", 0)
             cache_create == Get(usage, "cache_creation_input_tokens", 0)
             s1 == [s EXCEPT !.total_input = @ + input_tokens,
                             !.total_output = @ + output_tokens,
                             !.total_cache_read = @ + cache_read,
                             !.total_cache_create = @ + cache_create,
                             !.cumulative_tokens = input_tokens + cache_read]
             content_parts == IF l.msg = "dict" /\ l.content = "list" THEN l.parts ELSE <<>>
             r == ImpParts(s1, l, content_parts, <<>>)
         IN  IF r.s.status = "raised" THEN r.s
             ELSE IF r.text # <<>>
             THEN ImpAssistantMessage(r.s, l, r.text, input_tokens, output_tokens,
                                      cache_read, cache_create)
             ELSE r.s

ImpApiError(s, l) ==
    \* event.get("error", {}).get("error", {}): AttributeError on a payload
    \* that is no object
    IF l.payload = "bad" THEN Raise(s)
    ELSE [s EXCEPT !.errors =
             Append(@, [error_type |-> Get(l.error, "type", Unknown),
                        error_message |-> Get(l.error, "message", NoneVal),
                        timestamp |-> l.ts,
                        retry_attempt |-> l.retryAttempt,
                        retry_in_ms |-> IF l.retryInMs \in {NoneInt, 0}
                                        THEN NoneInt ELSE l.retryInMs])]

ImpEvent(s, l) ==
    LET s1 == ImpMetadata(ImpStamp(s, l), l)
    IN  CASE l.type = "user" -> ImpUser(s1, l)
          [] l.type = "assistant" -> ImpAssistant(s1, l)
          [] l.type = "system" /\ l.subtype = "api_error" -> ImpApiError(s1, l)
          [] OTHER -> s1

\* one turn of the loop "for line in f"
ImpStep(s, l) ==
    IF s.status = "raised" THEN s
    ELSE CASE l.json = "blank" -> s
           [] l.json = "malformed" -> ImpOnDecodeError(s)
           \* event.get on a value that is no dict: AttributeError
           [] l.json = "nonobject" -> Raise(s)
           [] OTHER -> ImpEvent(s, l)

RECURSIVE ImpScanFrom(_, _)
ImpScanFrom(s, file) ==
    IF file = <<>> THEN s ELSE ImpScanFrom(ImpStep(s, Line(Head(file))), Tail(file))

\* the locals of _import_session when the loop over the file ends
ImpScan(file) == ImpScanFrom(ImpInit, file)
-----------------------------------------------------------------------------
(* LogParser._parse_session_file: the scan of the file, with plan mode. *)

ParInit ==
    [status |-> "running",
     messages |-> <<>>, tool_calls |-> <<>>, errors |-> <<>>,
     total_input_tokens |-> 0, total_output_tokens |-> 0,
     total_cache_read |-> 0, total_cache_create |-> 0,
     in_plan_mode |-> FALSE, plan_mode_start |-> 0, plan_mode_entries |-> 0,
     planning_time_seconds |-> 0, execution_time_seconds |-> 0,
     planning_tokens |-> 0, execution_tokens |-> 0,
     planning_messages |-> 0, execution_messages |-> 0,
     last_timestamp |-> 0, first_timestamp |-> 0]

\* except json.JSONDecodeError: continue
ParOnDecodeError(s) == s

\* a slip: the trigger is not idempotent
ParEnterPlanModeAlways(s, l) ==
    [s EXCEPT !.in_plan_mode = TRUE, !.plan_mode_start = l.ts, !.plan_mode_entries = @ + 1]

ParEnterPlanMode(s, l) ==
    IF ~s.in_plan_mode
    THEN [s EXCEPT !.in_plan_mode = TRUE, !.plan_mode_start = l.ts,
                   !.plan_mode_entries = @ + 1]
    ELSE s

ParExitPlanMode(s, l) ==
    IF s.in_plan_mode /\ s.plan_mode_start # 0 /\ l.ts # 0
    THEN [s EXCEPT !.planning_time_seconds = @ + (l.ts - s.plan_mode_start),
                   !.in_plan_mode = FALSE, !.plan_mode_start = 0]
    ELSE s

\* the loop over a user event's list content: plan-file creation results
RECURSIVE ParResults(_, _, _)
ParResults(s, l, items) ==
    IF items = <<>> \/ s.status = "raised" THEN s
    ELSE LET item == Head(items)
         IN  IF item.shape # "dict" THEN Raise(s)
             ELSE IF /\ Get(item.d, "type", "") = "tool_result"
                     /\ l.tur = "dict"
                     /\ InPlansDir(Get(l.result, "filePath", <<>>))
                     /\ Get(l.result, "type", "") = "create"
             THEN ParResults(ParEnterPlanMode(s, l), l, Tail(items))
             ELSE ParResults(s, l, Tail(items))

\* planning_messages / execution_messages += 1
ParCountMessage(s) ==
    IF s.in_plan_mode
    THEN [s EXCEPT !.planning_messages = @ + 1]
    ELSE [s EXCEPT !.execution_messages = @ + 1]

ParUserMessage(s, l, content) ==
    ParCountMessage([s EXCEPT !.messages = Append(@, [role |-> "user", content |-> content,
                                                      timestamp |-> l.ts, model |-> NoneVal,
                                                      input_tokens |-> NoneInt,
                                                      output_tokens |-> NoneInt])])

ParUser(s, l) ==
    IF l.msg = "bad" THEN Raise(s)
    ELSE CASE l.msg = "absent" \/ l.content = "absent" -> ParUserMessage(s, l, <<>>)
           [] l.content = "str" -> ParUserMessage(s, l, l.text)
           [] l.content = "list" -> ParResults(s, l, l.parts)
           [] OTHER -> s

\* a slip: the output tokens are left out of the bucket
MsgTokensInputOnly(usage) == Get(usage, "input_tokens", 0)

\* msg_tokens = usage.get("input_tokens", 0) + usage.get("output_tokens", 0)
MsgTokens(usage) == Get(usage, "input_tokens", 0) + Get(usage, "output_tokens", 0)

\* the per-mode buckets of an assistant event
ParAttribute(s, msg_tokens) ==
    IF s.in_plan_mode
    THEN [s EXCEPT !.planning_tokens = @ + msg_tokens, !.planning_messages = @ + 1]
    ELSE [s EXCEPT !.execution_tokens = @ + msg_tokens, !.execution_messages = @ + 1]

ParToolUse(s, l, part) ==
    LET tool_name == Get(part, "name", <<>>)
        s1 == [s EXCEPT !.tool_calls = Append(@, [name |-> tool_name, timestamp |-> l.ts])]
    IN  IF tool_name = <<"Write">>
        THEN IF InPlansDir(Get(Get(part, "input", EmptyDict), "file_path", <<>>))
             THEN ParEnterPlanMode(s1, l)
             ELSE s1
        ELSE IF tool_name = <<"ExitPlanMode">> THEN ParExitPlanMode(s1, l)
        ELSE s1

RECURSIVE ParParts(_, _, _, _)
ParParts(s, l, parts, text) ==
    IF parts = <<>> \/ s.status = "raised" THEN [s |-> s, text |-> text]
    ELSE LET part == Head(parts)
             ptype == Get(part.d, "type", "")
         IN  IF part.shape # "dict" THEN [s |-> Raise(s), text |-> text]
             ELSE IF ptype = "text"
             THEN ParParts(s, l, Tail(parts), text \o Get(part.d, "text", <<>>))
             ELSE IF ptype = "tool_use"
             THEN ParParts(ParToolUse(s, l, part.d), l, Tail(parts), text)
             ELSE ParParts(s, l, Tail(parts), text)

\* a slip: the buckets are chosen after the event's tool uses were handled
ParAssistantAttributesLate(s, l) ==
    IF l.msg = "bad" \/ l.usage = "bad" THEN Raise(s)
    ELSE IF l.content = "other" \/ (l.content = "str" /\ l.text # <<>>) THEN Raise(s)
    ELSE LET usage == IF l.msg = "dict" /\ l.usage = "dict" THEN l.tokens ELSE EmptyDict
             content_parts == IF l.msg = "dict" /\ l.content = "list" THEN l.parts ELSE <<>>
             r == ParParts(s, l, content_parts, <<>>)
         IN  IF r.s.status = "raised" THEN r.s
             ELSE ParAttribute(r.s, MsgTokens(usage))

ParAssistant(s, l) ==
    IF l.msg = "bad" \/ l.usage = "bad" THEN Raise(s)
    ELSE IF l.content = "other" \/ (l.content = "str" /\ l.text # <<>>) THEN Raise(s)
    ELSE LET usage == IF l.msg = "dict" /\ l.usage = "dict" THEN l.tokens ELSE EmptyDict
             s1 == [s EXCEPT !.total_input_tokens = @ + Get(usage, "input_tokens", 0),
                             !.total_output_tokens = @ + Get(usage, "output_tokens", 0),
                             !.total_cache_read = @ + Get(usage, "cache_read_input_tokens", 0),
                             !.total_cache_create =
                                 @ + Get(usage, "cache_creation_input_tokens", 0)]
             s2 == ParAttribute(s1, MsgTokens(usage))
             content_parts == IF l.msg = "dict" /\ l.content = "list" THEN l.parts ELSE <<>>
             r == ParParts(s2, l, content_parts, <<>>)
         IN  IF r.s.status = "raised" THEN r.s
             ELSE IF r.text # <<>>
             THEN [r.s EXCEPT !.messages =
                      Append(@, [role |-> "assistant", content |-> r.text,
                                 timestamp |-> l.ts, model |-> l.model,
                                 input_tokens |-> Get(usage, "input_tokens", NoneInt),
                                 output_tokens |-> Get(usage, "output_tokens", NoneInt)])]
             ELSE r.s

ParApiError(s, l) ==
    [s EXCEPT !.errors = Append(@, [error |-> l.error, timestamp |-> l.ts])]

ParEvent(s, l) ==
    LET s1 == IF l.ts # 0 /\ s.first_timestamp = 0
              THEN [s EXCEPT !.first_timestamp = l.ts] ELSE s
        s2 == CASE l.type = "user" -> ParUser(s1, l)
                [] l.type = "assistant" -> ParAssistant(s1, l)
                [] l.type = "system" /\ l.subtype = "api_error" -> ParApiError(s1, l)
                [] OTHER -> s1
    IN  IF s2.status # "raised" /\ l.ts # 0
        THEN [s2 EXCEPT !.last_timestamp = l.ts]
        ELSE s2

\* one turn of the loop "for line in f"
ParStep(s, l) ==
    IF s.status = "raised" THEN s
    ELSE CASE l.json = "blank" -> s
           [] l.json = "malformed" -> ParOnDecodeError(s)
           \* the try catches JSONDecodeError only: AttributeError leaves the function
           [] l.json = "nonobject" -> Raise(s)
           [] OTHER -> ParEvent(s, l)

RECURSIVE ParScanFrom(_, _)
ParScanFrom(s, file) ==
    IF file = <<>> THEN s ELSE ParScanFrom(ParStep(s, Line(Head(file))), Tail(file))

ParScan(file) == ParScanFrom(ParInit, file)

\* a slip: the difference is not floored at zero
ParFinishNoFloor(s) ==
    IF s.first_timestamp # 0 /\ s.last_timestamp # 0
    THEN [s EXCEPT !.execution_time_seconds =
             (s.last_timestamp - s.first_timestamp) - s.planning_time_seconds]
    ELSE s

\* a slip: the span still open at the end is closed at the last timestamp
ParFinishClosesOpenSpan(s) ==
    LET t == IF s.in_plan_mode /\ s.plan_mode_start # 0 /\ s.last_timestamp # 0
             THEN [s EXCEPT !.planning_time_seconds =
                      @ + (s.last_timestamp - s.plan_mode_start)]
             ELSE s
    IN  IF t.first_timestamp # 0 /\ t.last_timestamp # 0
        THEN [t EXCEPT !.execution_time_seconds =
                 Max(0, (t.last_timestamp - t.first_timestamp) - t.planning_time_seconds)]
        ELSE t

\* after the loop: execution time, derived once from the wall time
ParFinish(s) ==
    IF s.first_timestamp # 0 /\ s.last_timestamp # 0
    THEN [s EXCEPT !.execution_time_seconds =
             Max(0, (s.last_timestamp - s.first_timestamp) - s.planning_time_seconds)]
    ELSE s

-----------------------------------------------------------------------------
(* Scanning one session file, a line at a time, with both readers. *)

ScanInit ==
    /\ lines = <<>>
    /\ imp = ImpInit
    /\ par = ParInit

\* the next line of the file is read by the importer's loop and by the parser's
ReadLine ==
    /\ Len(lines) < MaxLines
    /\ \E name \in LineNames :
        /\ lines' = Append(lines, name)
        /\ imp' = ImpStep(imp, Line(name))
        /\ par' = ParStep(par, Line(name))

-----------------------------------------------------------------------------
(* The store: SQLite tables behind an SQLAlchemy session. *)

EmptyStore ==
    [sessions |-> {}, messages |-> {}, tool_usages |-> {}, errors |-> {},
     subagent_usages |-> {}, daily_stats |-> {}, tool_stats |-> {}, error_stats |-> {}]

ChildTables == {"messages", "tool_usages", "errors", "subagent_usages"}

\* An INTEGER PRIMARY KEY without AUTOINCREMENT: the largest rowid in the table
\* plus one, so the id of a deleted last row is given out again.
NextId(rows) ==
    IF rows = {} THEN 1
    ELSE (CHOOSE i \in {r.id : r \in rows} : \A r \in rows : r.id <= i) + 1

\* INSERT of one pending object
InsertRow(store, obj) ==
    [store EXCEPT ![obj.table] =
        @ \cup {[id |-> NextId(@), session_id |-> obj.session_id, data |-> obj.data]}]

\* the INSERTs of a flush, in the order the objects were added
RECURSIVE FlushPending(_, _)
FlushPending(store, objs) ==
    IF objs = <<>> THEN store
    ELSE FlushPending(InsertRow(store, Head(objs)), Tail(objs))

\* a slip: the stored Session of that id is not deleted
DeleteSessionNot(store, session_id) == store

\* db.query(Session).filter(Session.session_id == session_id).delete(): one
\* DELETE FROM sessions; no ORM cascade runs, the schema has no ON DELETE
\* CASCADE and SQLite leaves foreign keys unenforced, so no child row goes.
DeleteSession(store, session_id) ==
    [store EXCEPT !.sessions = {r \in @ : r.session_id # session_id}]

\* datetime.utcnow(), for a file without timestamps
SecondsPerDay == 86400
UtcNow == SecondsPerDay + 1

\* created_at.date()
DateOf(t) == t \div SecondsPerDay

\* Session(...) of _import_session
SessionRow(id, session_id, s) ==
    [id |-> id, session_id |-> session_id,
     project_path |-> s.project_path, first_prompt |-> s.first_prompt,
     git_branch |-> s.git_branch,
     created_at |-> IF s.first_timestamp # 0 THEN s.first_timestamp ELSE UtcNow,
     modified_at |-> s.last_timestamp,
     message_count |-> Len(s.messages),
     total_input_tokens |-> s.total_input, total_output_tokens |-> s.total_output,
     total_cache_read_tokens |-> s.total_cache_read,
     total_cache_creation_tokens |-> s.total_cache_create,
     tool_call_count |-> Len(s.tool_usages), error_count |-> Len(s.errors),
     duration_ms |-> IF s.first_timestamp # 0 /\ s.last_timestamp # 0
                     THEN (s.last_timestamp - s.first_timestamp) * 1000 ELSE NoneInt,
     subagent_count |-> s.subagent_count, skill_count |-> s.skill_count,
     cli_version |-> IF s.cli_version = <<>> THEN NoneVal ELSE s.cli_version,
     slug |-> IF s.slug = <<>> THEN NoneVal ELSE s.slug]

\* the children of _import_session, each tagged with session.id and added
Tagged(table, id, records) ==
    [k \in 1..Len(records) |-> [table |-> table, session_id |-> id, data |-> records[k]]]

Children(id, s) ==
    Tagged("messages", id, s.messages) \o Tagged("tool_usages", id, s.tool_usages)
    \o Tagged("errors", id, s.errors) \o Tagged("subagent_usages", id, s.subagent_usages)

\* a slip: the existence check is lost and every file is imported again
SkipExistingNever(store, session_id, forced) == FALSE

\* the existence check of _maybe_import_session
SkipExisting(store, session_id, forced) ==
    ~forced /\ \E r \in store.sessions : r.session_id = session_id

\* a slip: db.commit() where db.flush() stands
AfterFlushCommits(committed, flushed) == flushed

\* db.flush() makes the rows visible to this transaction only
AfterFlush(committed, flushed) == committed

\* leaving "with self.session_factory() as db" on an exception closes the
\* session: the open transaction is rolled back
AfterRollback(committed, flushed) == committed

-----------------------------------------------------------------------------
(* LogImporter._update_daily_stats *)

RECURSIVE SumOver(_, _)
\* the sum of column col over a set of rows
SumOver(rows, col) ==
    IF rows = {} THEN 0
    ELSE LET r == CHOOSE x \in rows : TRUE
         IN  r[col] + SumOver(rows \ {r}, col)

\* session.tool_usages / session.errors: a lazy load, a SELECT of the flushed
\* rows whose session_id is session.id (autoflush is off)
Loaded(store, table, session) == {c \in store[table] : c.session_id = session.id}

\* the DailyStats row of one date, from the sessions counted for it
DailyRow(d, xs) ==
    [date |-> d, project_path |-> "*",
     session_count |-> Cardinality(xs),
     message_count |-> SumOver(xs, "message_count"),
     input_tokens |-> SumOver(xs, "total_input_tokens"),
     output_tokens |-> SumOver(xs, "total_output_tokens"),
     cache_read_tokens |-> SumOver(xs, "total_cache_read_tokens"),
     cache_creation_tokens |-> SumOver(xs, "total_cache_creation_tokens"),
     tool_call_count |-> SumOver(xs, "tool_call_count"),
     error_count |-> SumOver(xs, "error_count")]

\* a slip: every date's row adds up the sessions of all dates
DailyRowsAllDates(store) ==
    {DailyRow(d, store.sessions) : d \in {DateOf(x.created_at) : x \in store.sessions}}

DailyRows(store) ==
    {DailyRow(d, {x \in store.sessions : DateOf(x.created_at) = d})
     : d \in {DateOf(x.created_at) : x \in store.sessions}}

\* the (session, child) pairs the loops over session.tool_usages / session.errors visit
LoadedPairs(store, table) ==
    UNION {{<<x, c>> : c \in Loaded(store, table, x)} : x \in store.sessions}

ToolRows(store) ==
    LET pairs == LoadedPairs(store, "tool_usages")
        keys == {<<DateOf(p[1].created_at), p[2].data.tool_name>> : p \in pairs}
    IN  {[date |-> k[1], tool_name |-> k[2],
          call_count |-> Cardinality({p \in pairs : DateOf(p[1].created_at) = k[1]
                                                    /\ p[2].data.tool_name = k[2]}),
          \* is_error and duration_ms keep their column defaults (False, NULL)
          error_count |-> 0, total_duration_ms |-> 0] : k \in keys}

ErrorRows(store) ==
    LET pairs == LoadedPairs(store, "errors")
        keys == {<<DateOf(p[1].created_at), p[2].data.error_type>> : p \in pairs}
    IN  {[date |-> k[1], error_type |-> k[2],
          count |-> Cardinality({p \in pairs : DateOf(p[1].created_at) = k[1]
                                               /\ p[2].data.error_type = k[2]})]
         : k \in keys}

\* a slip: the recomputed rows are added to the rows already there
UpdateDailyStatsKeepsRows(store) ==
    [store EXCEPT !.daily_stats = @ \cup DailyRows(store),
                  !.tool_stats = @ \cup ToolRows(store),
                  !.error_stats = @ \cup ErrorRows(store)]

\* the three tables are emptied and the recomputed rows added
UpdateDailyStats(store) ==
    [store EXCEPT !.daily_stats = DailyRows(store),
                  !.tool_stats = ToolRows(store),
                  !.error_stats = ErrorRows(store)]

-----------------------------------------------------------------------------
(* LogImporter.import_all *)

SessionIds == {"s1", "s2"}

\* the contents a discovered session file can have
SessionFiles ==
    { <<"user_hello", "asst_text">>,
      <<"asst_task", "api_error">>,
      <<"user_hello", "nonobject">>,
      \* no line carries a timestamp: created_at is the time of the import
      <<"asst_plan_nots", "asst_exit_nots">> }

\* a discovered file: the session id of its name, its lines, whether open() succeeds
DiskEntries ==
    [session_id : SessionIds, file : SessionFiles, readable : {TRUE}]
    \cup [session_id : SessionIds, file : {<<>>}, readable : {FALSE}]

RECURSIVE SeqsUpTo(_, _)
SeqsUpTo(S, n) ==
    IF n = 0 THEN {<<>>}
    ELSE LET shorter == SeqsUpTo(S, n - 1)
         IN  shorter \cup {Append(q, x) : q \in {p \in shorter : Len(p) = n - 1}, x \in S}

ZeroStats ==
    [sessions_imported |-> 0, sessions_skipped |-> 0, messages_imported |-> 0,
     tool_usages_imported |-> 0, errors_imported |-> 0, subagents_imported |-> 0]

StoreInit ==
    /\ disk \in SeqsUpTo(DiskEntries, MaxFiles) \ {<<>>}
    /\ db = EmptyStore
    /\ tx = EmptyStore
    /\ pending = <<>>
    /\ pc = "idle"
    /\ pos = 0
    /\ force = FALSE
    /\ stats = ZeroStats
    /\ outcome = "none"
    /\ batches = 0

\* import_all(force) is called: the session factory opens a session
BeginImport ==
    /\ pc = "idle"
    /\ batches < MaxBatches
    /\ \E f \in BOOLEAN : force' = f
    /\ pc' = "scan"
    /\ pos' = 0
    /\ tx' = db
    /\ pending' = <<>>
    /\ stats' = ZeroStats
    /\ outcome' = "running"
    /\ batches' = batches + 1
    /\ UNCHANGED <<disk, db>>

\* _maybe_import_session finds the session id in the store and returns
SkipSession ==
    /\ pc = "scan"
    /\ pos < Len(disk)
    /\ SkipExisting(tx, disk[pos + 1].session_id, force)
    /\ stats' = [stats EXCEPT !.sessions_skipped = @ + 1]
    /\ pos' = pos + 1
    /\ UNCHANGED <<disk, db, tx, pending, pc, force, outcome, batches>>

\* _maybe_import_session imports the file: _import_session scans it, deletes the
\* stored Session of that id, adds the new one, flushes, and adds the children
ImportSession ==
    /\ pc = "scan"
    /\ pos < Len(disk)
    /\ LET entry == disk[pos + 1]
           s == ImpScan(entry.file)
           cleared == DeleteSession(tx, entry.session_id)
           id == NextId(cleared.sessions)
           session == SessionRow(id, entry.session_id, s)
           flushed == FlushPending([cleared EXCEPT !.sessions = @ \cup {session}], pending)
       IN  /\ ~SkipExisting(tx, entry.session_id, force)
           /\ entry.readable
           /\ s.status = "running"
           /\ tx' = flushed
           /\ db' = AfterFlush(db, flushed)
           /\ pending' = Children(id, s)
           /\ stats' = [stats EXCEPT !.sessions_imported = @ + 1,
                                     !.messages_imported = @ + Len(s.messages),
                                     !.tool_usages_imported = @ + Len(s.tool_usages),
                                     !.errors_imported = @ + Len(s.errors),
                                     !.subagents_imported = @ + Len(s.subagent_usages)]
    /\ pos' = pos + 1
    /\ UNCHANGED <<disk, pc, force, outcome, batches>>

\* open(session_file) raises OSError: nothing catches it and import_all ends
OpenFails ==
    /\ pc = "scan"
    /\ pos < Len(disk)
    /\ ~SkipExisting(tx, disk[pos + 1].session_id, force)
    /\ ~disk[pos + 1].readable
    /\ pc' = "idle"
    /\ outcome' = "OSError"
    /\ db' = AfterRollback(db, tx)
    /\ tx' = db'
    /\ pending' = <<>>
    /\ UNCHANGED <<disk, pos, force, stats, batches>>

\* the scan of the file raises (a line of an unexpected shape): import_all ends
ScanFails ==
    /\ pc = "scan"
    /\ pos < Len(disk)
    /\ ~SkipExisting(tx, disk[pos + 1].session_id, force)
    /\ disk[pos + 1].readable
    /\ ImpScan(disk[pos + 1].file).status = "raised"
    /\ pc' = "idle"
    /\ outcome' = "AttributeError"
    /\ db' = AfterRollback(db, tx)
    /\ tx' = db'
    /\ pending' = <<>>
    /\ UNCHANGED <<disk, pos, force, stats, batches>>

\* after the last file: _update_daily_stats(db), then db.commit(), which
\* flushes what is pending and makes the transaction's rows the stored ones
FinishImport ==
    /\ pc = "scan"
    /\ pos = Len(disk)
    /\ LET committed == FlushPending(UpdateDailyStats(tx), pending)
       IN  /\ db' = committed
           /\ tx' = committed
    /\ pending' = <<>>
    /\ pc' = "idle"
    /\ outcome' = "committed"
    /\ UNCHANGED <<disk, pos, force, stats, batches>>

\* the process dies while import_all runs: SQLite discards the open transaction
Crash ==
    /\ pc = "scan"
    /\ pc' = "idle"
    /\ outcome' = "crashed"
    /\ db' = AfterRollback(db, tx)
    /\ tx' = db'
    /\ pending' = <<>>
    /\ UNCHANGED <<disk, pos, force, stats, batches>>

-----------------------------------------------------------------------------
(* One call of _classify_tool. *)

ToolNames == SeqsUpTo(NameTokens, MaxNameLen)

ToolInputs ==
    { EmptyDict,
      ("skill" :> <<"pdf">>),
      ("subagent_type" :> <<"Explore">>),
      ("skill" :> <<"pdf">>) @@ ("subagent_type" :> <<"Explore">>) }

\* before the call returns
NoResult ==
    [category |-> "none", mcp_server |-> NoneVal,
     skill_name |-> NoneVal, subagent_type |-> NoneVal]

ClassifyIdle ==
    /\ cname = <<>>
    /\ cinput = EmptyDict
    /\ cresult = NoResult

\* a tool-use part arrives with some name and some input
ClassifyInit ==
    /\ cname \in ToolNames
    /\ cinput \in ToolInputs
    /\ cresult = NoResult

Classify ==
    /\ cresult = NoResult
    /\ cresult' = ClassifyTool(cname, cinput)
    /\ UNCHANGED <<cname, cinput>>

-----------------------------------------------------------------------------
(* categorize_error and get_subcategory (core/error_analyzer.py) *)

\* An error text is a sequence of phrases joined by single blanks.  The phrases
\* are those the predicates look for, in the spelling a tool result gives them,
\* and two tool names.
ErrTokens ==
    { "does not exist", "no such file", "path does not exist", "EISDIR",
      "No such tool available:", "No such tool available: foo", "user doesn't want", "tool use was rejected",
      "old_string", "not found", "Found 2 matches", "replace_all",
      "file has not been read yet", "exit code 1", "command not found",
      "status code 404", "status code 403", "status code 429", "request failed",
      "exceeds maximum", "tokens", "error connecting to database", "failed to connect",
      "no workspace set", "interrupted by user", "permission denied",
      "InputValidationError", "unrecognized_key", "unrecognized key", "foo", "Foo" }

\* str.lower() of one phrase
LowerToken(tok) ==
    CASE tok = "EISDIR" -> "eisdir"
      [] tok = "No such tool available:" -> "no such tool available:"
      [] tok = "No such tool available: foo" -> "no such tool available: foo"
      [] tok = "Found 2 matches" -> "found 2 matches"
      [] tok = "InputValidationError" -> "inputvalidationerror"
      [] tok = "Foo" -> "foo"
      [] OTHER -> tok

\* a slip: the text is matched as given, not lower-cased
LowerNot(text) == text

\* error_message.lower()
Lower(text) == [i \in 1..Len(text) |-> LowerToken(text[i])]

\* the substrings of a lower-cased phrase that some predicate looks for
PhrasesIn(tok) ==
    CASE tok = "path does not exist" -> {"path does not exist", "does not exist"}
      [] tok \in {"no such tool available:", "no such tool available: foo"}
            -> {"no such tool", "no such tool available"}
      [] tok = "not found" -> {"not found", "found"}
      [] tok = "found 2 matches" -> {"found", "matches"}
      [] tok = "exit code 1" -> {"exit code", "exit code 1"}
      [] tok = "status code 404" -> {"status code 404", "404"}
      [] tok = "status code 403" -> {"status code 403", "403"}
      [] tok = "status code 429" -> {"status code 429", "429"}
      [] tok = "error connecting to database" -> {"error connecting to database", "error"}
      [] tok = "inputvalidationerror" -> {"inputvalidationerror", "error"}
      [] tok \in {"foo"} -> {}
      [] OTHER -> {tok}

\* phrase in err
Has(err, phrase) == \E i \in 1..Len(err) : phrase \in PhrasesIn(err[i])

ERROR_CATEGORIES ==
    { "file_not_found", "directory_instead_of_file", "tool_not_available", "user_rejected",
      "edit_string_not_found", "edit_multiple_matches", "file_not_read_first",
      "command_failed", "http_error", "file_too_large", "database_connection",
      "mcp_workspace_not_set", "task_interrupted", "permission_denied", "invalid_input",
      "other" }

\* a slip: the exit-code test is tried before all others
categorize_error_exit_code_first(error_message) ==
    LET err == Lower(error_message)
    IN  IF Has(err, "exit code") THEN "command_failed"
        ELSE IF Has(err, "does not exist") \/ Has(err, "no such file") THEN "file_not_found"
        ELSE IF Has(err, "eisdir") THEN "directory_instead_of_file"
        ELSE IF Has(err, "no such tool") THEN "tool_not_available"
        ELSE "other"

categorize_error(error_message) ==
    LET err == Lower(error_message)
    IN  IF Has(err, "does not exist") \/ Has(err, "no such file")
           \/ Has(err, "path does not exist") THEN "file_not_found"
        ELSE IF Has(err, "eisdir") THEN "directory_instead_of_file"
        ELSE IF Has(err, "no such tool") THEN "tool_not_available"
        ELSE IF Has(err, "user doesn't want") \/ Has(err, "tool use was rejected")
             THEN "user_rejected"
        ELSE IF Has(err, "old_string") /\ Has(err, "not found") THEN "edit_string_not_found"
        ELSE IF Has(err, "found") /\ Has(err, "matches") /\ Has(err, "replace_all")
             THEN "edit_multiple_matches"
        ELSE IF Has(err, "file has not been read yet") THEN "file_not_read_first"
        ELSE IF Has(err, "exit code") THEN "command_failed"
        ELSE IF Has(err, "status code 404") \/ Has(err, "status code 403")
                \/ Has(err, "status code 429") \/ Has(err, "request failed")
             THEN "http_error"
        ELSE IF Has(err, "exceeds maximum") /\ Has(err, "tokens") THEN "file_too_large"
        ELSE IF Has(err, "error connecting to database") \/ Has(err, "failed to connect")
             THEN "database_connection"
        ELSE IF Has(err, "no workspace set") THEN "mcp_workspace_not_set"
        ELSE IF Has(err, "interrupted by user") THEN "task_interrupted"
        ELSE IF Has(err, "permission denied") THEN "permission_denied"
        ELSE IF Has(err, "inputvalidationerror") \/ Has(err, "unrecognized_key")
                \/ Has(err, "unrecognized key") THEN "invalid_input"
        ELSE "other"

\* the first run of non-blank characters of a lower-cased phrase
FirstWord(tok) ==
    CASE tok \in {"does not exist"} -> "does"
      [] tok \in {"no such file", "no such tool available:", "no such tool available: foo",
                  "no workspace set"} -> "no"
      [] tok = "path does not exist" -> "path"
      [] tok = "user doesn't want" -> "user"
      [] tok = "tool use was rejected" -> "tool"
      [] tok = "not found" -> "not"
      [] tok = "found 2 matches" -> "found"
      [] tok = "file has not been read yet" -> "file"
      [] tok = "exit code 1" -> "exit"
      [] tok = "command not found" -> "command"
      [] tok \in {"status code 404", "status code 403", "status code 429"} -> "status"
      [] tok = "request failed" -> "request"
      [] tok = "exceeds maximum" -> "exceeds"
      [] tok = "error connecting to database" -> "error"
      [] tok = "failed to connect" -> "failed"
      [] tok = "interrupted by user" -> "interrupted"
      [] tok = "permission denied" -> "permission"
      [] tok = "unrecognized key" -> "unrecognized"
      [] OTHER -> tok

\* None where Python holds a plain string
NoneStr == "<None>"

\* re.search(r"no such tool available: (\S+)", err): the word after the first
\* occurrence that a word follows, NoneStr without one
ToolNameMatch(err) ==
    LET hits == {i \in 1..Len(err) :
                    \/ err[i] = "no such tool available: foo"
                    \/ err[i] = "no such tool available:" /\ i < Len(err)}
        first == CHOOSE i \in hits : \A j \in hits : i <= j
    IN  IF hits = {} THEN NoneStr
        ELSE IF err[first] = "no such tool available: foo" THEN "foo"
        ELSE FirstWord(err[first + 1])

\* re.search(r"exit code (\d+)", err)
ExitCodeMatch(err) == IF Has(err, "exit code 1") THEN "1" ELSE NoneStr

\* get_subcategory of an error whose tool use is unknown (tool_input is None)
get_subcategory(error) ==
    LET err == Lower(error.error_message)
        exit_code == ExitCodeMatch(err)
    IN  IF error.error_category = "command_failed" THEN
            IF Has(err, "no such file or directory: .venv") THEN "venv_not_found"
            ELSE IF Has(err, "is not running") THEN "service_not_running"
            ELSE IF Has(err, "command not found") \/ exit_code = "127"
                 THEN "command_not_found"
            ELSE IF Has(err, "traceback") THEN "python_error"
            ELSE IF exit_code # NoneStr THEN "exit_code_1" ELSE NoneStr
        ELSE IF error.error_category = "http_error" THEN
            IF Has(err, "404") THEN "404_not_found"
            ELSE IF Has(err, "403") THEN "403_forbidden"
            ELSE IF Has(err, "429") THEN "429_rate_limited"
            ELSE IF Has(err, "500") \/ Has(err, "502") \/ Has(err, "503")
                 THEN "5xx_server_error"
            ELSE NoneStr
        ELSE IF error.error_category = "tool_not_available" THEN ToolNameMatch(err)
        ELSE NoneStr

\* result_content[:1000]
ErrorMessageCap == 1000

ErrorTexts == SeqsUpTo(ErrTokens, MaxErrLen)

ErrorIdle ==
    /\ etext = <<>>
    /\ eresults = <<>>

\* a tool result with is_error arrives with some text
ErrorInit ==
    /\ etext \in ErrorTexts
    /\ eresults = <<>>

\* the ToolError of _parse_session_errors: its category and its subcategory
Categorize ==
    /\ Len(eresults) < 2
    /\ LET error == [error_message |-> Truncate(etext, ErrorMessageCap),
                     error_category |-> categorize_error(etext)]
       IN  eresults' = Append(eresults, [category |-> error.error_category,
                                         subcategory |-> get_subcategory(error)])
    /\ UNCHANGED etext

-----------------------------------------------------------------------------
(* ErrorAnalyzer._parse_session_errors (core/error_analyzer.py) *)

ErrInit == [status |-> "running", errors |-> <<>>, session_tool_uses |-> EmptyDict]

\* the tool_use parts of an assistant event are remembered by their id
RECURSIVE ErrToolUses(_, _, _)
ErrToolUses(s, l, parts) ==
    IF parts = <<>> \/ s.status = "raised" THEN s
    ELSE LET part == Head(parts)
         IN  IF part.shape # "dict" THEN Raise(s)
             ELSE IF Get(part.d, "type", "") = "tool_use"
             THEN ErrToolUses([s EXCEPT !.session_tool_uses =
                                  (Get(part.d, "id", "") :>
                                      [name |-> Get(part.d, "name", NoneVal),
                                       input |-> Get(part.d, "input", EmptyDict),
                                       timestamp |-> l.ts]) @@ @],
                              l, Tail(parts))
             ELSE ErrToolUses(s, l, Tail(parts))

\* ToolError(...) of a failed tool result, with its category and subcategory
ErrToolError(s, part, session_id, project_path) ==
    LET tool_id == Get(part, "tool_use_id", "")
        known == tool_id \in DOMAIN s.session_tool_uses
        result_content == Get(part, "content", <<>>)
        error == [tool_name |-> IF known THEN s.session_tool_uses[tool_id].name ELSE Unknown,
                  error_message |-> Truncate(result_content, ErrorMessageCap),
                  error_category |-> categorize_error(result_content),
                  timestamp |-> IF known THEN s.session_tool_uses[tool_id].timestamp ELSE 0,
                  session_id |-> session_id, project_path |-> project_path]
    IN  [tool_name |-> error.tool_name, error_message |-> error.error_message,
         error_category |-> error.error_category, timestamp |-> error.timestamp,
         session_id |-> session_id, project_path |-> project_path,
         subcategory |-> get_subcategory(error)]

RECURSIVE ErrResults(_, _, _, _, _)
ErrResults(s, l, parts, session_id, project_path) ==
    IF parts = <<>> \/ s.status = "raised" THEN s
    ELSE LET part == Head(parts)
         IN  IF part.shape # "dict" THEN Raise(s)
             ELSE IF Get(part.d, "type", "") = "tool_result" /\ Get(part.d, "is_error", FALSE)
             THEN ErrResults([s EXCEPT !.errors =
                                 Append(@, ErrToolError(s, part.d, session_id, project_path))],
                             l, Tail(parts), session_id, project_path)
             ELSE ErrResults(s, l, Tail(parts), session_id, project_path)

\* one turn of the loop "for line in f": the try catches decode errors only
ErrStep(s, l, session_id, project_path) ==
    IF s.status = "raised" THEN s
    ELSE CASE l.json \in {"blank", "malformed"} -> s
           [] l.json = "nonobject" -> Raise(s)
           [] l.type \in {"assistant", "user"} ->
                IF l.msg = "bad" THEN Raise(s)
                ELSE IF l.msg = "dict" /\ l.content = "list"
                THEN IF l.type = "assistant" THEN ErrToolUses(s, l, l.parts)
                     ELSE ErrResults(s, l, l.parts, session_id, project_path)
                ELSE s
           [] OTHER -> s

RECURSIVE ErrScanFrom(_, _, _, _)
ErrScanFrom(s, file, session_id, project_path) ==
    IF file = <<>> THEN s
    ELSE ErrScanFrom(ErrStep(s, Line(Head(file)), session_id, project_path),
                     Tail(file), session_id, project_path)

ParseSessionErrors(file, session_id, project_path) ==
    ErrScanFrom(ErrInit, file, session_id, project_path)

-----------------------------------------------------------------------------
(* The read side: LogParser.list_sessions, get_session, get_session_messages *)
(* and ErrorAnalyzer.get_session_errors over the project directories.        *)

\* the session ids a caller may ask for; "s3" names no file
LookupIds == SessionIds \cup {"s3"}

\* the lines of <session-id>.jsonl
FileOf(session_id) ==
    IF session_id = "s1" THEN <<"user_hello", "asst_text">>
    ELSE <<"asst_tool", "tool_failed">>

\* an entry of sessions-index.json
IndexEntry(session_id) ==
    ("sessionId" :> session_id) @@ ("firstPrompt" :> <<"Hello">>) @@ ("messageCount" :> 2)
    @@ ("created" :> 1) @@ ("modified" :> 1) @@ ("gitBranch" :> <<"main">>)
    @@ ("projectPath" :> <<"/", "test", "/", "project">>)

\* a project directory: the entries of its index (none when the index is
\* missing or unreadable) and the session ids of its *.jsonl files in glob order
ProjectDirs ==
    [index : {<<>>, <<IndexEntry("s1")>>, <<IndexEntry("s2")>>,
              <<IndexEntry("s1"), IndexEntry("s2")>>},
     files : {<<>>, <<"s1">>, <<"s2">>, <<"s1", "s2">>, <<"s2", "s1">>}]

DirLabels == <<"pa", "pb", "pc", "pd">>

\* the name of the i-th project directory
DirName(i) == <<"-", "home", "-", DirLabels[i]>>

\* str(project_dir.name).replace("-", "/")
ReplaceDash(name) == [i \in 1..Len(name) |-> IF name[i] = "-" THEN "/" ELSE name[i]]

\* project and project not in str(project_dir)
FilteredOut(project, i) ==
    project # NoneStr /\ ~\E k \in 1..Len(DirName(i)) : DirName(i)[k] = project

\* stat.st_ctime / stat.st_mtime of a session file
FileTime == 2

\* first_prompt = content[:200]
ListPromptCap == 200

\* the loop that looks for the first prompt of a file
RECURSIVE FirstPromptFrom(_)
FirstPromptFrom(file) ==
    IF file = <<>> THEN [status |-> "running", prompt |-> <<>>]
    ELSE LET l == Line(Head(file))
         IN  CASE l.json \in {"blank", "malformed"} -> FirstPromptFrom(Tail(file))
               [] l.json = "nonobject" -> [status |-> "raised", prompt |-> <<>>]
               [] l.type = "user" ->
                    IF l.msg = "bad" THEN [status |-> "raised", prompt |-> <<>>]
                    ELSE IF l.msg = "dict" /\ l.content = "str" /\ l.text # <<>>
                    THEN [status |-> "running", prompt |-> Truncate(l.text, ListPromptCap)]
                    ELSE FirstPromptFrom(Tail(file))
               [] OTHER -> FirstPromptFrom(Tail(file))

\* Session(...) from an index entry
IndexedSession(entry) ==
    [session_id |-> Get(entry, "sessionId", ""),
     project_path |-> Get(entry, "projectPath", <<>>),
     first_prompt |-> Get(entry, "firstPrompt", <<>>),
     summary |-> Get(entry, "summary", NoneVal),
     message_count |-> Get(entry, "messageCount", 0),
     created |-> Get(entry, "created", 0), modified |-> Get(entry, "modified", 0),
     git_branch |-> Get(entry, "gitBranch", NoneVal)]

\* Session(...) from a session file
FileSession(session_id, i, first_prompt) ==
    [session_id |-> session_id, project_path |-> ReplaceDash(DirName(i)),
     first_prompt |-> first_prompt, summary |-> NoneVal, message_count |-> 0,
     created |-> FileTime, modified |-> FileTime, git_branch |-> NoneVal]

\* the loop over the entries of one index
RECURSIVE ListIndex(_, _)
ListIndex(acc, entries) ==
    IF entries = <<>> THEN acc
    ELSE LET session_id == Get(Head(entries), "sessionId", "")
         IN  IF session_id # "" /\ session_id \notin acc.seen
             THEN ListIndex([acc EXCEPT !.seen = @ \cup {session_id},
                                        !.sessions = Append(@, IndexedSession(Head(entries)))],
                            Tail(entries))
             ELSE ListIndex(acc, Tail(entries))

\* if session_id in seen_session_ids: continue
ListFileSeen(acc, session_id) == session_id \in acc.seen

\* the loop over the *.jsonl files of one directory
RECURSIVE ListFiles(_, _, _)
ListFiles(acc, files, i) ==
    IF files = <<>> \/ acc.status = "raised" THEN acc
    ELSE IF ListFileSeen(acc, Head(files)) THEN ListFiles(acc, Tail(files), i)
    ELSE LET found == FirstPromptFrom(FileOf(Head(files)))
         IN  IF found.status = "raised"
             THEN [acc EXCEPT !.status = "raised"]
             ELSE ListFiles([acc EXCEPT !.seen = @ \cup {Head(files)},
                                        !.sessions = Append(@, FileSession(Head(files), i,
                                                                           found.prompt))],
                            Tail(files), i)

\* the loop over the project directories, from the i-th on
RECURSIVE ListDirs(_, _, _, _)
ListDirs(acc, dirs, i, project) ==
    IF i > Len(dirs) \/ acc.status = "raised" THEN acc
    ELSE IF FilteredOut(project, i) THEN ListDirs(acc, dirs, i + 1, project)
    ELSE ListDirs(ListFiles(ListIndex(acc, dirs[i].index), dirs[i].files, i),
                  dirs, i + 1, project)

\* sessions.sort(key=lambda s: s.modified or "", reverse=True): the sort is
\* stable, sessions of one modification time keep their order
RECURSIVE SortByModified(_)
SortByModified(sessions) ==
    IF sessions = <<>> THEN <<>>
    ELSE LET rest == SortByModified(SubSeq(sessions, 1, Len(sessions) - 1))
             x == sessions[Len(sessions)]
             ahead == SelectSeq(rest, LAMBDA y : y.modified >= x.modified)
             behind == SelectSeq(rest, LAMBDA y : y.modified < x.modified)
         IN  ahead \o <<x>> \o behind

\* xs[offset:offset + limit]
Slice(xs, offset, limit) == SubSeq(xs, offset + 1, Min(Len(xs), offset + limit))

\* a slip: an empty list where None is due
NotFoundAsEmptyList == [kind |-> "errors", value |-> <<>>]

\* the return value None
NotFound == [kind |-> "none", value |-> <<>>]

list_sessions(dirs, project, limit, offset) ==
    LET acc == ListDirs([status |-> "running", seen |-> {}, sessions |-> <<>>],
                        dirs, 1, project)
    IN  IF acc.status = "raised" THEN [kind |-> "raised", value |-> <<>>]
        ELSE [kind |-> "sessions",
              value |-> Slice(SortByModified(acc.sessions), offset, limit)]

\* the first project directory that holds <session_id>.jsonl, 0 when none does
HoldingDir(dirs, session_id) ==
    LET hits == {i \in 1..Len(dirs) : \E k \in 1..Len(dirs[i].files) :
                                          dirs[i].files[k] = session_id}
    IN  IF hits = {} THEN 0 ELSE CHOOSE i \in hits : \A j \in hits : i <= j

get_session(dirs, session_id) ==
    IF HoldingDir(dirs, session_id) = 0 THEN NotFound
    ELSE LET detail == ParFinish(ParScan(FileOf(session_id)))
         IN  IF detail.status = "raised" THEN [kind |-> "raised", value |-> <<>>]
             ELSE [kind |-> "detail", value |-> detail]

get_session_messages(dirs, session_id, limit, offset) ==
    LET session == get_session(dirs, session_id)
    IN  IF session.kind # "detail" THEN session
        ELSE [kind |-> "messages", value |-> Slice(session.value.messages, offset, limit)]

get_session_errors(dirs, session_id) ==
    LET i == HoldingDir(dirs, session_id)
        found == ParseSessionErrors(FileOf(session_id), session_id, ReplaceDash(DirName(i)))
    IN  IF i = 0 THEN NotFound
        ELSE IF found.status = "raised" THEN [kind |-> "raised", value |-> <<>>]
        ELSE [kind |-> "errors", value |-> found.errors]

NoCall == [op |-> "none", session_id |-> "", project |-> NoneStr, limit |-> 0, offset |-> 0]
NoReply == [kind |-> "pending", value |-> <<>>]

ReadIdle ==
    /\ projects = <<>>
    /\ call = NoCall
    /\ reply = NoReply

ReadInit ==
    /\ projects \in SeqsUpTo(ProjectDirs, MaxProjects)
    /\ call = NoCall
    /\ reply = NoReply

ListSessions ==
    /\ call = NoCall
    /\ \E project \in {NoneStr, "pa"}, limit \in 0..MaxLimit, offset \in 0..1 :
        /\ call' = [NoCall EXCEPT !.op = "list_sessions", !.project = project,
                                  !.limit = limit, !.offset = offset]
        /\ reply' = list_sessions(projects, project, limit, offset)
    /\ UNCHANGED projects

GetSession ==
    /\ call = NoCall
    /\ \E session_id \in LookupIds :
        /\ call' = [NoCall EXCEPT !.op = "get_session", !.session_id = session_id]
        /\ reply' = get_session(projects, session_id)
    /\ UNCHANGED projects

GetSessionMessages ==
    /\ call = NoCall
    /\ \E session_id \in LookupIds, limit \in 0..MaxLimit, offset \in 0..1 :
        /\ call' = [NoCall EXCEPT !.op = "get_session_messages", !.session_id = session_id,
                                  !.limit = limit, !.offset = offset]
        /\ reply' = get_session_messages(projects, session_id, limit, offset)
    /\ UNCHANGED projects

GetSessionErrors ==
    /\ call = NoCall
    /\ \E session_id \in LookupIds :
        /\ call' = [NoCall EXCEPT !.op = "get_session_errors", !.session_id = session_id]
        /\ reply' = get_session_errors(projects, session_id)
    /\ UNCHANGED projects

-----------------------------------------------------------------------------
(* Specifications. *)

\* the batch import against the store
Init == StoreInit /\ ScanInit /\ ClassifyIdle /\ ErrorIdle /\ ReadIdle

Next ==
    \/ (BeginImport /\ UNCHANGED <<classifyVars, scanVars, errorVars, readVars>>)
    \/ (SkipSession /\ UNCHANGED <<classifyVars, scanVars, errorVars, readVars>>)
    \/ (ImportSession /\ UNCHANGED <<classifyVars, scanVars, errorVars, readVars>>)
    \/ (OpenFails /\ UNCHANGED <<classifyVars, scanVars, errorVars, readVars>>)
    \/ (ScanFails /\ UNCHANGED <<classifyVars, scanVars, errorVars, readVars>>)
    \/ (FinishImport /\ UNCHANGED <<classifyVars, scanVars, errorVars, readVars>>)
    \/ (Crash /\ UNCHANGED <<classifyVars, scanVars, errorVars, readVars>>)

Spec == Init /\ [][Next]_vars

\* an idle store, for the specifications that do not import
StoreIdle ==
    /\ disk = <<>>
    /\ db = EmptyStore
    /\ tx = EmptyStore
    /\ pending = <<>>
    /\ pc = "idle"
    /\ pos = 0
    /\ force = FALSE
    /\ stats = ZeroStats
    /\ outcome = "none"
    /\ batches = 0

\* the scan of one session file
ScanSpecInit == StoreIdle /\ ScanInit /\ ClassifyIdle /\ ErrorIdle /\ ReadIdle
ScanNext == ReadLine /\ UNCHANGED <<classifyVars, storeVars, errorVars, readVars>>
SpecScan == ScanSpecInit /\ [][ScanNext]_vars

\* calls of _classify_tool
ClassifySpecInit == StoreIdle /\ ScanInit /\ ClassifyInit /\ ErrorIdle /\ ReadIdle
ClassifyNext == Classify /\ UNCHANGED <<scanVars, storeVars, errorVars, readVars>>
SpecClassify == ClassifySpecInit /\ [][ClassifyNext]_vars

\* calls of categorize_error and get_subcategory
ErrorSpecInit == StoreIdle /\ ScanInit /\ ClassifyIdle /\ ErrorInit /\ ReadIdle
ErrorNext == Categorize /\ UNCHANGED <<classifyVars, scanVars, storeVars, readVars>>
SpecError == ErrorSpecInit /\ [][ErrorNext]_vars

\* calls on the read side
ReadSpecInit == StoreIdle /\ ScanInit /\ ClassifyIdle /\ ErrorIdle /\ ReadInit
ReadNext ==
    \/ (ListSessions /\ UNCHANGED <<classifyVars, scanVars, storeVars, errorVars>>)
    \/ (GetSession /\ UNCHANGED <<classifyVars, scanVars, storeVars, errorVars>>)
    \/ (GetSessionMessages /\ UNCHANGED <<classifyVars, scanVars, storeVars, errorVars>>)
    \/ (GetSessionErrors /\ UNCHANGED <<classifyVars, scanVars, storeVars, errorVars>>)
SpecRead == ReadSpecInit /\ [][ReadNext]_vars

-----------------------------------------------------------------------------
(* Properties of the batch import (Spec). *)

StoredIds(store) == {r.session_id : r \in store.sessions}

\* the child rows of a table that carry a Session row's id
Owned(store, table, session) == {c \in store[table] : c.session_id = session.id}

\* import_all has just committed
Committing == pc = "scan" /\ pc' = "idle" /\ outcome' = "committed"

\* C1: a batch without force leaves every stored session as it was: the same
\* Session row, the same number of rows in each child table; and every
\* discovered file of a stored session id is counted as skipped, not imported.
C1_NoForceIsNoOp ==
    [][(Committing /\ ~force) =>
        LET known == {i \in 1..Len(disk) : disk[i].session_id \in StoredIds(db)}
        IN  /\ \A r \in db.sessions :
                /\ r \in db'.sessions
                /\ \A t \in ChildTables :
                    Cardinality(Owned(db', t, r)) = Cardinality(Owned(db, t, r))
            /\ stats'.sessions_skipped >= Cardinality(known)
            /\ stats'.sessions_imported <= Len(disk) - Cardinality(known)]_vars

\* C1 witness: a second batch, without force, has committed over a store that
\* held a session with children, and skipped its file.
C1_Witness ==
    /\ pc = "idle" /\ outcome = "committed" /\ ~force /\ batches = 2
    /\ stats.sessions_skipped > 0
    /\ \E r \in db.sessions : Owned(db, "messages", r) # {}

\* C2: after a batch with force, no child row that belonged to a re-imported
\* session before the batch is left in the store.
C2_ForceReplacesChildren ==
    [][(Committing /\ force) =>
        \A r \in db.sessions : \A t \in ChildTables : \A c \in Owned(db, t, r) :
            (\E i \in 1..Len(disk) : disk[i].session_id = r.session_id) => c \notin db'[t]]_vars

\* C3: every stored Session's message_count and tool_call_count equal the
\* numbers of Message and ToolUsage rows that carry its id.
C3_CountersMatchRows ==
    \A r \in db.sessions :
        /\ r.message_count = Cardinality(Owned(db, "messages", r))
        /\ r.tool_call_count = Cardinality(Owned(db, "tool_usages", r))

\* every child the scan produced for a stored session is stored with it
Complete(store) ==
    \A r \in store.sessions :
        /\ 0..(r.message_count - 1)
               \subseteq {c.data.message_index : c \in Owned(store, "messages", r)}
        /\ Cardinality(Owned(store, "tool_usages", r)) >= r.tool_call_count
        /\ Cardinality(Owned(store, "errors", r)) >= r.error_count
        /\ Cardinality(Owned(store, "subagent_usages", r)) >= r.subagent_count

\* C4: the stored state changes only when import_all commits after the last
\* file, and every stored state holds each Session with all of its children:
\* a failed or killed import_all leaves the store as it was before the batch.
C4_AllOrNothing ==
    [][/\ db' # db => (Committing /\ pos = Len(disk))
       /\ Complete(db')
       /\ (pc = "scan" /\ pc' = "idle" /\ outcome' # "committed") => db' = db]_vars

\* C4 witness: an import_all failed after it had flushed a session, and the
\* store holds nothing of it.
C4_Witness ==
    /\ pc = "idle" /\ outcome \in {"OSError", "AttributeError", "crashed"}
    /\ pos >= 1 /\ batches = 1
    /\ db = EmptyStore

\* C7: when a discovered file cannot be opened, every other file of the batch
\* is imported and committed all the same.
C7_UnreadableFileSkipped ==
    (pc = "idle" /\ outcome \in {"committed", "OSError"}) =>
        \A i \in 1..Len(disk) : disk[i].readable => disk[i].session_id \in StoredIds(db)

\* C28: the store never holds two Session rows of one session_id, also when a
\* batch meets a session id twice, with or without force; and the batch that
\* returns reports as many imported plus skipped sessions as it discovered
\* files.
C28_OneSessionRowPerId ==
    /\ \A r1, r2 \in db.sessions : r1.session_id = r2.session_id => r1 = r2
    /\ \A r1, r2 \in tx.sessions : r1.session_id = r2.session_id => r1 = r2
    /\ (pc = "idle" /\ outcome = "committed") =>
           stats.sessions_imported + stats.sessions_skipped = Len(disk)

\* C28 witness: a forced batch met the same session id in two files, imported
\* both and left one Session row.
C28_Witness ==
    /\ pc = "idle" /\ outcome = "committed" /\ force
    /\ Len(disk) = 2 /\ disk[1].session_id = disk[2].session_id
    /\ stats.sessions_imported = 2 /\ stats.sessions_skipped = 0
    /\ Cardinality(db.sessions) = 1

-----------------------------------------------------------------------------
(* Properties of the roll-up tables (Spec). *)

OnDate(store, d) == {x \in store.sessions : DateOf(x.created_at) = d}

\* C12: the stored DailyStats table has exactly one row for each created_at date
\* of a stored session and no other row, and the row's counters are the number
\* of the stored sessions of that date and the sums of their columns.
C12_DailyStatsMatchSessions ==
    /\ {r.date : r \in db.daily_stats} = {DateOf(x.created_at) : x \in db.sessions}
    /\ \A r1, r2 \in db.daily_stats : r1.date = r2.date => r1 = r2
    /\ \A r \in db.daily_stats :
        LET xs == OnDate(db, r.date)
        IN  /\ r.session_count = Cardinality(xs)
            /\ r.message_count = SumOver(xs, "message_count")
            /\ r.input_tokens = SumOver(xs, "total_input_tokens")
            /\ r.output_tokens = SumOver(xs, "total_output_tokens")
            /\ r.cache_read_tokens = SumOver(xs, "total_cache_read_tokens")
            /\ r.cache_creation_tokens = SumOver(xs, "total_cache_creation_tokens")
            /\ r.tool_call_count = SumOver(xs, "tool_call_count")
            /\ r.error_count = SumOver(xs, "error_count")

\* C12 witness: a second batch imported nothing new, and the table it committed
\* has the rows of the two dates of the sessions stored by the first batch.
C12_Witness ==
    /\ pc = "idle" /\ outcome = "committed" /\ batches = 2
    /\ stats.sessions_imported = 0 /\ stats.sessions_skipped = 2
    /\ Cardinality(db.daily_stats) = 2
    /\ \E r \in db.daily_stats : r.message_count > 0

\* the stored rows of a child table owned by the stored sessions of one date
\* whose column col holds v
OwnedOnDate(table, d, col, v) ==
    UNION {{c \in Owned(db, table, x) : c.data[col] = v} : x \in OnDate(db, d)}

\* the number a roll-up table gives for a key, 0 when it has no row for it
StatFor(rows, d, col, v, counter) ==
    IF \E r \in rows : r.date = d /\ r[col] = v
    THEN (CHOOSE r \in rows : r.date = d /\ r[col] = v)[counter]
    ELSE 0

\* C13: for every date and tool name the stored ToolStats call_count is the
\* number of stored ToolUsage rows of that name owned by the sessions of that
\* date, and likewise ErrorStats.count for every date and error type; the rows
\* of the sessions imported by the batch that committed are counted too.
C13_ToolAndErrorStatsMatchRows ==
    \A x \in db.sessions :
        LET d == DateOf(x.created_at)
        IN  /\ \A c \in Owned(db, "tool_usages", x) :
                StatFor(db.tool_stats, d, "tool_name", c.data.tool_name, "call_count")
                    = Cardinality(OwnedOnDate("tool_usages", d, "tool_name", c.data.tool_name))
            /\ \A c \in Owned(db, "errors", x) :
                StatFor(db.error_stats, d, "error_type", c.data.error_type, "count")
                    = Cardinality(OwnedOnDate("errors", d, "error_type", c.data.error_type))

\* C27: whatever batches have run, each roll-up table has at most one row per
\* key, and every row stands for sessions that are stored now: a DailyStats
\* row counts the stored sessions of its date, a ToolStats or ErrorStats row
\* counts stored rows of its tool name or error type owned by them.
C27_RollupsRebuiltEachBatch ==
    /\ \A r1, r2 \in db.daily_stats :
           (r1.date = r2.date /\ r1.project_path = r2.project_path) => r1 = r2
    /\ \A r1, r2 \in db.tool_stats :
           (r1.date = r2.date /\ r1.tool_name = r2.tool_name) => r1 = r2
    /\ \A r1, r2 \in db.error_stats :
           (r1.date = r2.date /\ r1.error_type = r2.error_type) => r1 = r2
    /\ \A r \in db.daily_stats :
           /\ r.project_path = "*"
           /\ r.session_count >= 1
           /\ r.session_count = Cardinality(OnDate(db, r.date))
           /\ r.message_count = SumOver(OnDate(db, r.date), "message_count")
    /\ \A r \in db.tool_stats :
           /\ r.call_count >= 1
           /\ r.call_count <= Cardinality(OwnedOnDate("tool_usages", r.date,
                                                      "tool_name", r.tool_name))
    /\ \A r \in db.error_stats :
           /\ r.count >= 1
           /\ r.count <= Cardinality(OwnedOnDate("errors", r.date,
                                                 "error_type", r.error_type))

\* C27 witness: a forced second batch replaced a session that the first batch
\* had stored with other contents, and committed roll-ups with tool rows.
C27_Witness ==
    /\ pc = "idle" /\ outcome = "committed" /\ batches = 2 /\ force
    /\ stats.sessions_imported = 2
    /\ Cardinality(db.sessions) = 1
    /\ db.tool_stats # {} /\ db.error_stats # {}
    /\ Cardinality(db.daily_stats) = 1

-----------------------------------------------------------------------------
(* Properties of the scan of one file (SpecScan). *)

WithoutMalformed(file) == SelectSeq(file, LAMBDA n : ~IsMalformed(n))

\* C5: what both readers hold after a file equals what they hold after the same
\* file with its malformed-JSON lines removed.
C5_MalformedLinesSkipped ==
    /\ imp = ImpScan(WithoutMalformed(lines))
    /\ par = ParScan(WithoutMalformed(lines))

\* C5 witness: a malformed line stands between two lines that each gave a message.
C5_Witness ==
    /\ Len(lines) = 3 /\ IsMalformed(lines[2])
    /\ Len(imp.messages) = 2 /\ Len(par.messages) = 2

\* a line that decodes but is no event the readers know: not an object, an
\* unknown type, or a known type whose message / usage has another type
UnrecognizedShape(n) ==
    LET l == Line(n)
    IN  \/ l.json = "nonobject"
        \/ /\ l.json = "object"
           /\ \/ l.type \notin {"user", "assistant", "system"}
              \/ l.type = "system" /\ l.subtype # "api_error"
              \/ l.type \in {"user", "assistant"} /\ (l.msg = "bad" \/ l.usage = "bad")

WithoutUnrecognized(file) == SelectSeq(file, LAMBDA n : ~UnrecognizedShape(n))

\* C6: a line of an unrecognized shape raises nothing and adds no record: both
\* readers go on, and hold the records of the file without such lines.
C6_UnrecognizedShapeSkipped ==
    LET known == ImpScan(WithoutUnrecognized(lines))
    IN  /\ imp.status = "running"
        /\ par.status = "running"
        /\ imp.messages = known.messages
        /\ imp.tool_usages = known.tool_usages
        /\ imp.errors = known.errors
        /\ Len(par.messages) = Len(ParScan(WithoutUnrecognized(lines)).messages)

\* C9: the two per-mode message counters add up to the number of messages
\* the parse returns.
C9_PlanMessagesAddUp ==
    par.status = "running" =>
        ParFinish(par).planning_messages + ParFinish(par).execution_messages
            = Len(ParFinish(par).messages)

\* C10: the two per-mode token counters add up to the input plus output totals.
C10_PlanTokensAddUp ==
    ParFinish(par).planning_tokens + ParFinish(par).execution_tokens
        = ParFinish(par).total_input_tokens + ParFinish(par).total_output_tokens

\* C10 witness: assistant events were counted in both modes.
C10_Witness ==
    /\ par.status = "running"
    /\ par.planning_tokens > 0 /\ par.execution_tokens > 0

-----------------------------------------------------------------------------
(* Properties of the totals and the messages of one file (SpecScan). *)

\* the events of a file: its lines that decode to an object, in file order
Events(file) == SelectSeq(file, LAMBDA n : Line(n).json = "object")

\* the usage mapping of an assistant event, empty when it has none
UsageOf(l) == IF l.msg = "dict" /\ l.usage = "dict" THEN l.tokens ELSE EmptyDict

\* the sum of one usage field over the assistant events of a file
RECURSIVE UsageSum(_, _)
UsageSum(file, field) ==
    IF file = <<>> THEN 0
    ELSE LET l == Line(Head(file))
         IN  (IF l.json = "object" /\ l.type = "assistant"
              THEN Get(UsageOf(l), field, 0) ELSE 0) + UsageSum(Tail(file), field)

\* the text parts of an event, concatenated
RECURSIVE TextOf(_)
TextOf(parts) ==
    IF parts = <<>> THEN <<>>
    ELSE (IF Get(Head(parts).d, "type", "") = "text"
          THEN Get(Head(parts).d, "text", <<>>) ELSE <<>>) \o TextOf(Tail(parts))

AssistantWithText(n) ==
    Line(n).type = "assistant" /\ Line(n).content = "list" /\ TextOf(Line(n).parts) # <<>>

UserWithString(n) ==
    Line(n).type = "user" /\ Line(n).msg = "dict" /\ Line(n).content = "str"

TotalsAreUsageSums ==
    /\ imp.total_input = UsageSum(lines, "input_tokens")
    /\ imp.total_output = UsageSum(lines, "output_tokens")
    /\ imp.total_cache_read = UsageSum(lines, "cache_read_input_tokens")
    /\ imp.total_cache_create = UsageSum(lines, "cache_creation_input_tokens")
    /\ par.total_input_tokens = UsageSum(lines, "input_tokens")
    /\ par.total_output_tokens = UsageSum(lines, "output_tokens")
    /\ par.total_cache_read = UsageSum(lines, "cache_read_input_tokens")
    /\ par.total_cache_create = UsageSum(lines, "cache_creation_input_tokens")

\* C15: the four totals are the sums of the usage fields over all
\* assistant events, and the messages are the user events with string content
\* plus the assistant events with non-empty text.
C15_TotalsAndMessagesAsStated ==
    (imp.status = "running" /\ par.status = "running") =>
        /\ TotalsAreUsageSums
        /\ Len(imp.messages) = Len(SelectSeq(Events(lines), UserWithString))
                                + Len(SelectSeq(Events(lines), AssistantWithText))
        /\ Len(par.messages) = Len(imp.messages)

\* the roles of a sequence of messages, in order
Roles(messages) == [k \in 1..Len(messages) |-> messages[k].role]

\* C29: after the same lines the parser and the importer hold the same number
\* of messages with the same roles in the same order, the same four token
\* totals, the same number of tool calls and the same number of API errors,
\* and one raises exactly when the other does.
C29_ParserAndImporterAgree ==
    /\ imp.status = par.status
    /\ imp.status = "running" =>
           /\ Roles(par.messages) = Roles(imp.messages)
           /\ par.total_input_tokens = imp.total_input
           /\ par.total_output_tokens = imp.total_output
           /\ par.total_cache_read = imp.total_cache_read
           /\ par.total_cache_create = imp.total_cache_create
           /\ Len(par.tool_calls) = Len(imp.tool_usages)
           /\ Len(par.errors) = Len(imp.errors)

-----------------------------------------------------------------------------
(* Properties of the sub-agent records of one file (SpecScan). *)

\* the number of tool_use parts named Task among the parts of an event
RECURSIVE SpawnsIn(_)
SpawnsIn(parts) ==
    IF parts = <<>> THEN 0
    ELSE (IF /\ Get(Head(parts).d, "type", "") = "tool_use"
             /\ Get(Head(parts).d, "name", Unknown) = <<"Task">>
          THEN 1 ELSE 0) + SpawnsIn(Tail(parts))

\* for each agent-classified tool use of the file, in file order, the number
\* of the line that carries it
RECURSIVE SpawnLines(_, _)
SpawnLines(file, i) ==
    IF i > Len(file) THEN <<>>
    ELSE LET l == Line(file[i])
             n == IF l.json = "object" /\ l.type = "assistant" /\ l.content = "list"
                  THEN SpawnsIn(l.parts) ELSE 0
         IN  [k \in 1..n |-> i] \o SpawnLines(file, i + 1)

\* the line is a user event that carries toolUseResult.agentId and a
\* tool_result for the tool use id
CompletionFor(n, id) ==
    LET l == Line(n)
    IN  /\ l.json = "object" /\ l.type = "user" /\ l.content = "list"
        /\ l.tur = "dict" /\ Get(l.result, "agentId", <<>>) # <<>>
        /\ \E k \in 1..Len(l.parts) :
            /\ Get(l.parts[k].d, "type", "") = "tool_result"
            /\ Get(l.parts[k].d, "tool_use_id", "") = id

CompletionSet(r) ==
    /\ r.agent_id # NoneVal /\ r.status # NoneVal /\ r.duration_ms # NoneInt
    /\ r.total_tokens # NoneInt /\ r.total_tool_use_count # NoneInt

CompletionNull(r) ==
    /\ r.agent_id = NoneVal /\ r.status = NoneVal /\ r.duration_ms = NoneInt
    /\ r.total_tokens = NoneInt /\ r.total_tool_use_count = NoneInt

\* the line is a user event that carries toolUseResult.agentId
IsCompletion(l) ==
    /\ l.json = "object" /\ l.type = "user" /\ l.content = "list"
    /\ l.tur = "dict" /\ Get(l.result, "agentId", <<>>) # <<>>

\* the record with its five completion fields blanked
SpawnFields(r) ==
    [r EXCEPT !.agent_id = NoneVal, !.status = NoneVal, !.duration_ms = NoneInt,
              !.total_tokens = NoneInt, !.total_tool_use_count = NoneInt]

\* the records the pending map holds for the tool use ids of the event's
\* tool_result parts
Matched(s, l) ==
    {s.pending_subagents[id] :
        id \in {Get(l.parts[k].d, "tool_use_id", "") :
                   k \in {j \in 1..Len(l.parts) :
                             Get(l.parts[j].d, "type", "") = "tool_result"}}
               \cap DOMAIN s.pending_subagents}

\* C25: a completion event changes only the five completion fields of the
\* matched record, keeps the number of records and the pending map, leaves
\* every other record alone, and processed a second time changes nothing.
C25_EnrichmentIdempotent ==
    [][(imp.status = "running" /\ imp'.status = "running" /\ lines' # lines
        /\ IsCompletion(Line(lines'[Len(lines')]))) =>
          LET l == Line(lines'[Len(lines')])
              old == imp.subagent_usages
              new == imp'.subagent_usages
          IN  /\ Len(new) = Len(old)
              /\ imp'.pending_subagents = imp.pending_subagents
              /\ \A k \in 1..Len(old) :
                  /\ SpawnFields(new[k]) = SpawnFields(old[k])
                  /\ k \notin Matched(imp, l) => new[k] = old[k]
              /\ (lines # <<>> /\ lines[Len(lines)] = lines'[Len(lines')]) => new = old]_vars

\* C25 witness: the completion of a spawned sub-agent was processed twice and
\* the one record carries the completion's values.
C25_Witness ==
    /\ lines = <<"asst_task", "task_done", "task_done">>
    /\ Len(imp.subagent_usages) = 1
    /\ imp.subagent_usages[1].total_tokens = 7
    /\ imp.subagent_usages[1].agent_id = <<"a1b2">>
    /\ "t1" \in DOMAIN imp.pending_subagents

\* C18 as stated: one record per agent-classified tool use, its completion
\* fields set when a later line is a completion for its tool use id and all
\* null otherwise.
C18_SubagentRecordsAsStated ==
    imp.status = "running" =>
        LET spawned == SpawnLines(lines, 1)
        IN  /\ Len(imp.subagent_usages) = Len(spawned)
            /\ \A k \in 1..Len(imp.subagent_usages) :
                LET r == imp.subagent_usages[k]
                IN  IF \E j \in (spawned[k] + 1)..Len(lines) :
                           CompletionFor(lines[j], r.tool_use_id)
                    THEN CompletionSet(r) ELSE CompletionNull(r)

\* C18 amended: the completion goes to the record that was spawned last with
\* that tool use id before the completion arrived; a record whose id was
\* spawned again before any completion stays with null fields.
C18_SubagentRecordsAmended ==
    imp.status = "running" =>
        LET spawned == SpawnLines(lines, 1)
        IN  /\ Len(imp.subagent_usages) = Len(spawned)
            /\ \A k \in 1..Len(imp.subagent_usages) :
                LET r == imp.subagent_usages[k]
                IN  IF \E j \in (spawned[k] + 1)..Len(lines) :
                           /\ CompletionFor(lines[j], r.tool_use_id)
                           /\ ~\E k2 \in (k + 1)..Len(spawned) :
                                  /\ spawned[k2] < j
                                  /\ imp.subagent_usages[k2].tool_use_id = r.tool_use_id
                    THEN CompletionSet(r) ELSE CompletionNull(r)

\* C18 witness: a Task tool use was logged twice under one id and then
\* completed: the second record took the completion, the first stayed null.
C18_Witness ==
    /\ lines = <<"asst_task", "asst_task", "task_done">>
    /\ Len(imp.subagent_usages) = 2
    /\ CompletionNull(imp.subagent_usages[1]) /\ CompletionSet(imp.subagent_usages[2])

-----------------------------------------------------------------------------
(* Properties of the session metadata (SpecScan). *)

\* the value of a field in the first event of the file that supplies a
\* non-empty one, empty when no event does
RECURSIVE FirstSupplied(_, _)
FirstSupplied(file, field) ==
    IF file = <<>> THEN <<>>
    ELSE LET l == Line(Head(file))
         IN  IF l.json = "object" /\ l[field] # <<>> THEN l[field]
             ELSE FirstSupplied(Tail(file), field)

\* C24: project_path, git_branch, cli_version and slug each hold the value of
\* the first event in file order that supplies a non-empty value for the
\* field, whatever the event's type; later events do not overwrite it and
\* the four fields are filled independently.
C24_MetadataFirstWriteWins ==
    imp.status = "running" =>
        /\ imp.project_path = FirstSupplied(lines, "cwd")
        /\ imp.git_branch = FirstSupplied(lines, "gitBranch")
        /\ imp.cli_version = FirstSupplied(lines, "version")
        /\ imp.slug = FirstSupplied(lines, "slug")

\* C24 witness: an event of an unrecognized type supplied the path and the
\* branch, a later user event with another path supplied version and slug.
C24_Witness ==
    /\ lines = <<"summary", "user_hello">>
    /\ imp.project_path = <<"/proj">> /\ imp.git_branch = <<"main">>
    /\ imp.cli_version = <<"2.0">> /\ imp.slug = <<"calm-fox">>

-----------------------------------------------------------------------------
(* Properties of message_index (SpecScan). *)

\* the messages of the session carry the indexes 0..n-1 in the order in which
\* they were appended
IndexesAreDense ==
    \A k \in 1..Len(imp.messages) : imp.messages[k].message_index = k - 1

\* reading one more line leaves the messages alone or appends one message,
\* made from that line, whose index is the number of messages before it
MessageFromNewLine ==
    \/ imp'.messages = imp.messages
    \/ /\ Len(imp'.messages) = Len(imp.messages) + 1
       /\ SubSeq(imp'.messages, 1, Len(imp.messages)) = imp.messages
       /\ LET m == imp'.messages[Len(imp'.messages)]
              l == Line(lines'[Len(lines')])
          IN  /\ m.message_index = Len(imp.messages)
              /\ m.role = l.type
              /\ m.timestamp = l.ts

\* C19: the message_index values of a session are exactly 0..n-1 without gap
\* or repeat, and a message made from an earlier line has a smaller index
\* than one made from a later line, whatever the timestamps of the events.
C19_MessageIndexIsArrivalOrder ==
    [](IndexesAreDense) /\ [][MessageFromNewLine]_vars

\* C19 witness: two messages whose timestamps run against the file order, or
\* the later of which has no timestamp, indexed 0 and 1 in file order.
C19_Witness ==
    /\ Len(imp.messages) = 2
    /\ imp.messages[1].timestamp > imp.messages[2].timestamp
    /\ imp.messages[1].message_index = 0 /\ imp.messages[2].message_index = 1

-----------------------------------------------------------------------------
(* Properties of plan mode (SpecScan). *)

\* the plan-mode triggers of one content part of a line
PartTriggers(l, part) ==
    IF l.type = "user"
    THEN IF /\ Get(part.d, "type", "") = "tool_result" /\ l.tur = "dict"
            /\ InPlansDir(Get(l.result, "filePath", <<>>))
            /\ Get(l.result, "type", "") = "create"
         THEN <<[kind |-> "enter", ts |-> l.ts]>> ELSE <<>>
    ELSE IF Get(part.d, "type", "") # "tool_use" THEN <<>>
    ELSE IF /\ Get(part.d, "name", <<>>) = <<"Write">>
            /\ InPlansDir(Get(Get(part.d, "input", EmptyDict), "file_path", <<>>))
         THEN <<[kind |-> "enter", ts |-> l.ts]>>
    ELSE IF Get(part.d, "name", <<>>) = <<"ExitPlanMode">>
         THEN <<[kind |-> "exit", ts |-> l.ts]>>
    ELSE <<>>

RECURSIVE PartsTriggers(_, _)
PartsTriggers(l, parts) ==
    IF parts = <<>> THEN <<>>
    ELSE PartTriggers(l, Head(parts)) \o PartsTriggers(l, Tail(parts))

\* the plan-mode triggers of a file, in file order
RECURSIVE Triggers(_)
Triggers(file) ==
    IF file = <<>> THEN <<>>
    ELSE LET l == Line(Head(file))
         IN  (IF l.json = "object" /\ l.type \in {"user", "assistant"} /\ l.content = "list"
              THEN PartsTriggers(l, l.parts) ELSE <<>>) \o Triggers(Tail(file))

\* The plan-mode state machine of the specification, run over the triggers: an
\* enter trigger opens a span when none is open, an exit trigger closes the open
\* span; entries counts the spans opened and time adds up the closed spans.
RECURSIVE PlanSpans(_, _)
PlanSpans(m, trigs) ==
    IF trigs = <<>> THEN m
    ELSE LET t == Head(trigs)
         IN  IF t.kind = "enter" /\ ~m.planning
             THEN PlanSpans([m EXCEPT !.planning = TRUE, !.start = t.ts,
                                      !.entries = @ + 1], Tail(trigs))
             ELSE IF t.kind = "exit" /\ m.planning
             THEN PlanSpans([m EXCEPT !.planning = FALSE,
                                      !.time = @ + (t.ts - m.start)], Tail(trigs))
             ELSE PlanSpans(m, Tail(trigs))

NoSpans == [planning |-> FALSE, start |-> 0, entries |-> 0, time |-> 0]

\* every plan-mode trigger of the file carries a timestamp
TriggersStamped(file) ==
    \A i \in 1..Len(Triggers(file)) : Triggers(file)[i].ts # 0

\* C11: for a file whose plan-mode triggers carry timestamps, planning_time_seconds
\* is the sum over the closed spans of (exit timestamp - entry timestamp),
\* plan_mode_entries is the number of spans opened, and a trigger that arrives
\* while planning moves neither the entry count nor the span start.
C11_PlanningTimeIsSpanSum ==
    (par.status = "running" /\ TriggersStamped(lines)) =>
        LET m == PlanSpans(NoSpans, Triggers(lines))
        IN  /\ par.planning_time_seconds = m.time
            /\ par.plan_mode_entries = m.entries
            /\ par.in_plan_mode = m.planning
            /\ par.in_plan_mode => par.plan_mode_start = m.start

\* C11 witness: a plan file was written, its creation was reported while
\* planning, and ExitPlanMode closed the span two seconds after it opened.
C11_Witness ==
    /\ lines = <<"asst_plan", "plan_created", "asst_exit">>
    /\ par.plan_mode_entries = 1 /\ par.planning_time_seconds = 2 /\ ~par.in_plan_mode

-----------------------------------------------------------------------------
(* Properties of _classify_tool (SpecClassify). *)

Categories == {"skill", "agent", "mcp", "native"}

Classified(category, server, skill, agent) ==
    [category |-> category, mcp_server |-> server,
     skill_name |-> skill, subagent_type |-> agent]

\* the name has the form mcp__<server>__<tool>: three segments or more, the first "mcp"
McpForm(name) == Len(SplitDunder(name)) >= 3 /\ SplitDunder(name)[1] = <<"mcp">>

\* C8 as stated: Skill, Task, the three-segment mcp form, and native for the rest.
C8_ClassifyAsStated ==
    cresult # NoResult =>
        /\ cresult.category \in Categories
        /\ cresult =
            IF cname = <<"Skill">>
            THEN Classified("skill", NoneVal, Get(cinput, "skill", Unknown), NoneVal)
            ELSE IF cname = <<"Task">>
            THEN Classified("agent", NoneVal, NoneVal, Get(cinput, "subagent_type", Unknown))
            ELSE IF McpForm(cname)
            THEN Classified("mcp", SplitDunder(cname)[2], NoneVal, NoneVal)
            ELSE Classified("native", NoneVal, NoneVal, NoneVal)

\* C8 amended: every name that starts with mcp__ is mcp; its server is the second
\* segment when there are three segments or more, and "unknown" when there are two.
C8_ClassifyAmended ==
    cresult # NoResult =>
        /\ cresult.category \in Categories
        /\ cresult =
            IF cname = <<"Skill">>
            THEN Classified("skill", NoneVal, Get(cinput, "skill", Unknown), NoneVal)
            ELSE IF cname = <<"Task">>
            THEN Classified("agent", NoneVal, NoneVal, Get(cinput, "subagent_type", Unknown))
            ELSE IF McpForm(cname)
            THEN Classified("mcp", SplitDunder(cname)[2], NoneVal, NoneVal)
            ELSE IF Len(SplitDunder(cname)) = 2 /\ SplitDunder(cname)[1] = <<"mcp">>
            THEN Classified("mcp", Unknown, NoneVal, NoneVal)
            ELSE Classified("native", NoneVal, NoneVal, NoneVal)

\* C8 witness: a name that starts with mcp__ and has two segments was classified
\* as mcp, with the server "unknown".
C8_Witness ==
    /\ Len(SplitDunder(cname)) = 2
    /\ cresult.category = "mcp" /\ cresult.mcp_server = Unknown

\* C21: when the file ends while the state is planning, the open span adds
\* nothing: the reported planning time is what the closed spans added up to,
\* and the entry that opened the span is counted in plan_mode_entries.
C21_OpenSpanContributesNothing ==
    (par.status = "running" /\ par.in_plan_mode) =>
        /\ ParFinish(par).planning_time_seconds = par.planning_time_seconds
        /\ ParFinish(par).plan_mode_entries = par.plan_mode_entries
        /\ ParFinish(par).plan_mode_entries >= 1
        /\ TriggersStamped(lines) =>
               LET m == PlanSpans(NoSpans, Triggers(lines))
               IN  /\ m.planning
                   /\ ParFinish(par).planning_time_seconds = m.time
                   /\ ParFinish(par).plan_mode_entries = m.entries

\* C21 witness: the file ends two seconds into its only span, which was never
\* closed: no planning time is reported and one entry is.
C21_Witness ==
    /\ par.status = "running" /\ par.in_plan_mode
    /\ par.plan_mode_start = 1 /\ par.last_timestamp = 3
    /\ ParFinish(par).planning_time_seconds = 0
    /\ ParFinish(par).plan_mode_entries = 1

\* the timestamps of the events of a file, in file order
RECURSIVE Stamps(_)
Stamps(file) ==
    IF file = <<>> THEN <<>>
    ELSE LET l == Line(Head(file))
         IN  (IF l.json = "object" /\ l.ts # 0 THEN <<l.ts>> ELSE <<>>) \o Stamps(Tail(file))

\* last timestamp of the file minus its first
WallTime(file) == Stamps(file)[Len(Stamps(file))] - Stamps(file)[1]

\* C22: execution_time_seconds stays 0 while the events are processed; after
\* the last event it is max(0, (last timestamp - first timestamp) - planning
\* time), and it stays 0 for a file without a timestamp.
C22_ExecutionTimeSetOnce ==
    par.status = "running" =>
        /\ par.execution_time_seconds = 0
        /\ ParFinish(par).execution_time_seconds =
               IF Stamps(lines) = <<>> THEN 0
               ELSE Max(0, WallTime(lines) - par.planning_time_seconds)
        /\ ParFinish(par).planning_time_seconds = par.planning_time_seconds

\* C22 witness: of two seconds of wall time one was spent planning, and the
\* remaining second is reported as execution time once the file has ended.
C22_Witness ==
    /\ par.status = "running"
    /\ par.planning_time_seconds = 1 /\ par.execution_time_seconds = 0
    /\ WallTime(lines) = 2
    /\ ParFinish(par).execution_time_seconds = 1

\* C30: for a file with at least one timestamp the reported planning time is
\* at least 0 and at most the wall time (last timestamp - first timestamp),
\* and planning time plus execution time is the wall time, whatever the order
\* of the timestamps in the file.
C30_PlanningWithinWallTime ==
    (par.status = "running" /\ Stamps(lines) # <<>>) =>
        /\ ParFinish(par).planning_time_seconds >= 0
        /\ ParFinish(par).planning_time_seconds <= WallTime(lines)
        /\ ParFinish(par).planning_time_seconds + ParFinish(par).execution_time_seconds
               = WallTime(lines)

\* the four per-mode counters after a step, given what the step added to the
\* planning buckets and to the execution buckets
Buckets(pm, pt, em, et) ==
    /\ par'.planning_messages = par.planning_messages + pm
    /\ par'.planning_tokens = par.planning_tokens + pt
    /\ par'.execution_messages = par.execution_messages + em
    /\ par'.execution_tokens = par.execution_tokens + et

\* the input plus output tokens an assistant event reports
TokensOf(l) == Get(UsageOf(l), "input_tokens", 0) + Get(UsageOf(l), "output_tokens", 0)

\* the user event gives a message
UserGivesMessage(l) == l.type = "user" /\ l.content \in {"str", "absent"}

\* C23: an assistant event and its tokens, and the message of a user event,
\* are counted once, in the buckets of the state that was current before the
\* event's own parts were handled; every other line is counted nowhere.
C23_AttributedToCurrentState ==
    [][(par.status = "running" /\ par'.status = "running" /\ lines' # lines) =>
          LET l == Line(lines'[Len(lines')])
          IN  IF l.json = "object" /\ l.type = "assistant"
              THEN IF par.in_plan_mode THEN Buckets(1, TokensOf(l), 0, 0)
                                       ELSE Buckets(0, 0, 1, TokensOf(l))
              ELSE IF l.json = "object" /\ UserGivesMessage(l)
              THEN IF par.in_plan_mode THEN Buckets(1, 0, 0, 0) ELSE Buckets(0, 0, 1, 0)
              ELSE Buckets(0, 0, 0, 0)]_vars

\* C23 witness: the event with the triggering Write went to the execution
\* buckets and the event with ExitPlanMode to the planning buckets.
C23_Witness ==
    /\ lines = <<"asst_plan", "asst_exit">>
    /\ par.execution_messages = 1 /\ par.execution_tokens = 5
    /\ par.planning_messages = 1 /\ par.planning_tokens = 8
    /\ ~par.in_plan_mode

\* the event carries a tool use named ExitPlanMode
HasExitPlanMode(l) ==
    /\ l.json = "object" /\ l.type = "assistant" /\ l.msg = "dict" /\ l.content = "list"
    /\ \E k \in 1..Len(l.parts) :
        /\ Get(l.parts[k].d, "type", "") = "tool_use"
        /\ Get(l.parts[k].d, "name", <<>>) = <<"ExitPlanMode">>

\* C20: the state goes from planning to executing exactly when an event with
\* an ExitPlanMode tool call is processed while the state is planning, with
\* or without timestamps on the exit and entry events.
C20_ExitExactlyOnExitPlanMode ==
    [][(par.status = "running" /\ par'.status = "running") =>
          ((par.in_plan_mode /\ ~par'.in_plan_mode)
              <=> (par.in_plan_mode /\ HasExitPlanMode(Line(lines'[Len(lines')]))))]_vars

-----------------------------------------------------------------------------
(* Properties of the error classifier (SpecError). *)

\* the categories in the order in which their predicates are tried
CategoryOrder ==
    << "file_not_found", "directory_instead_of_file", "tool_not_available", "user_rejected",
       "edit_string_not_found", "edit_multiple_matches", "file_not_read_first",
       "command_failed", "http_error", "file_too_large", "database_connection",
       "mcp_workspace_not_set", "task_interrupted", "permission_denied", "invalid_input" >>

\* the predicate of a category on a lower-cased text
Holds(category, err) ==
    CASE category = "file_not_found" ->
            Has(err, "does not exist") \/ Has(err, "no such file")
            \/ Has(err, "path does not exist")
      [] category = "directory_instead_of_file" -> Has(err, "eisdir")
      [] category = "tool_not_available" -> Has(err, "no such tool")
      [] category = "user_rejected" ->
            Has(err, "user doesn't want") \/ Has(err, "tool use was rejected")
      [] category = "edit_string_not_found" -> Has(err, "old_string") /\ Has(err, "not found")
      [] category = "edit_multiple_matches" ->
            Has(err, "found") /\ Has(err, "matches") /\ Has(err, "replace_all")
      [] category = "file_not_read_first" -> Has(err, "file has not been read yet")
      [] category = "command_failed" -> Has(err, "exit code")
      [] category = "http_error" ->
            Has(err, "status code 404") \/ Has(err, "status code 403")
            \/ Has(err, "status code 429") \/ Has(err, "request failed")
      [] category = "file_too_large" -> Has(err, "exceeds maximum") /\ Has(err, "tokens")
      [] category = "database_connection" ->
            Has(err, "error connecting to database") \/ Has(err, "failed to connect")
      [] category = "mcp_workspace_not_set" -> Has(err, "no workspace set")
      [] category = "task_interrupted" -> Has(err, "interrupted by user")
      [] category = "permission_denied" -> Has(err, "permission denied")
      [] category = "invalid_input" ->
            Has(err, "inputvalidationerror") \/ Has(err, "unrecognized_key")
            \/ Has(err, "unrecognized key")

\* the categories whose predicates hold, as positions of CategoryOrder
Matching(err) == {i \in 1..Len(CategoryOrder) : Holds(CategoryOrder[i], err)}

\* C26: the category is the earliest one of the fixed order whose predicate
\* holds on the lower-cased text, and it is 'other' exactly when none holds.
C26_FirstMatchWins ==
    \A k \in 1..Len(eresults) :
        LET hits == Matching(Lower(etext))
        IN  eresults[k].category =
                IF hits = {} THEN "other"
                ELSE CategoryOrder[CHOOSE i \in hits : \A j \in hits : i <= j]

\* C26 witness: a text on which the predicates of file_not_found and of
\* command_failed both hold was categorized as file_not_found.
C26_Witness ==
    /\ etext = <<"exit code 1", "does not exist">>
    /\ eresults # <<>>
    /\ eresults[1].category = "file_not_found"

\* "No such tool available: foo" starts at phrase i of the text
NoSuchToolFooAt(text, i) ==
    \/ text[i] = "No such tool available: foo"
    \/ text[i] = "No such tool available:" /\ i < Len(text) /\ text[i + 1] = "foo"

ContainsNoSuchToolFoo(text) == \E i \in 1..Len(text) : NoSuchToolFooAt(text, i)

HasEarlierPhrase(text) ==
    \E i \in 1..Len(text) :
        Lower(text)[i] \in {"does not exist", "no such file", "path does not exist", "eisdir"}

\* "No such tool available: foo" is the first "no such tool available: <word>"
\* of the text, in any letter case
NoSuchToolFooComesFirst(text) ==
    \E i \in 1..Len(text) :
        /\ NoSuchToolFooAt(text, i)
        /\ \A j \in 1..(i - 1) : Lower(text)[j] # "no such tool available:"

-----------------------------------------------------------------------------
(* Properties of the read side (SpecRead). *)

\* some project directory holds <session_id>.jsonl
Held(session_id) ==
    \E i \in 1..Len(projects) : \E k \in 1..Len(projects[i].files) :
        projects[i].files[k] = session_id

\* C16: get_session, get_session_messages and get_session_errors return None
\* for a session id that no project directory holds, and only for such an id:
\* a held session without errors gives the empty list, not None.
C16_UnknownSessionIsNone ==
    (call.op \in {"get_session", "get_session_messages", "get_session_errors"}) =>
        /\ reply.kind # "raised"
        /\ reply.kind = "none" <=> ~Held(call.session_id)

\* C16 witness: the errors of an id that no directory holds were asked for
\* while the directories hold other sessions.
C16_Witness ==
    /\ call.op = "get_session_errors" /\ call.session_id = "s3"
    /\ Held("s1") /\ Held("s2")
    /\ reply.kind = "none"

\* the directories a listing visits
Visited == {i \in 1..Len(projects) : ~FilteredOut(call.project, i)}

InSomeIndex(session_id) ==
    \E i \in Visited : \E k \in 1..Len(projects[i].index) :
        projects[i].index[k]["sessionId"] = session_id

InSomeFile(session_id) ==
    \E i \in Visited : \E k \in 1..Len(projects[i].files) :
        projects[i].files[k] = session_id

\* C17: a listing holds each session id at most once, never more than limit
\* entries, and the entry of a session that is both in an index and a file of
\* the listed directories carries the metadata of the index.
C17_ListedOnceWithIndexMetadata ==
    (call.op = "list_sessions") =>
        /\ reply.kind = "sessions"
        /\ Len(reply.value) <= call.limit
        /\ \A i, j \in 1..Len(reply.value) :
            reply.value[i].session_id = reply.value[j].session_id => i = j
        /\ \A i \in 1..Len(reply.value) :
            LET x == reply.value[i]
            IN  (InSomeIndex(x.session_id) /\ InSomeFile(x.session_id)) =>
                    x = IndexedSession(IndexEntry(x.session_id))

====
